---- MODULE Spec2Model ----
(***************************************************************************)
(* Grid-trading engine of upbit-trading-automation: the position ledger    *)
(* and simulation loop of UnifiedTrader (src/src/core/trader.py) driving   *)
(* GridTradingStrategy (src/src/core/strategies/grid_trading.py) and its    *)
(* subclass HybridGridStrategy (src/src/core/strategies/hybrid_grid.py).   *)
(*                                                                         *)
(* Units.  Prices and money are whole KRW.  Percentages of the source are  *)
(* kept in basis points (1 bp = 0.01 %), so -1.5 % is -150.  Comparisons   *)
(* of a ratio with a threshold are cross-multiplied, so they are exact;    *)
(* a float product that is stored (a fee, a sale amount, a band width) is  *)
(* kept to the whole unit.  Timestamps are minutes since the start of the  *)
(* data.  Python's None is NONE (-1).                                      *)
(***************************************************************************)
EXTENDS Integers, Sequences, FiniteSets, TLC

VARIABLES
    mode,               \* UnifiedTrader.mode: "backtest" or "live"
    config,             \* UnifiedTrader.config / the strategy's parameters
    strategy,           \* class of UnifiedTrader.strategy
    pc,                 \* position of the loop: idle, exit, entry, closing, done
    i,                  \* index of the reverse loop over positions (1-based)
    tick,               \* number of candles (loop iterations) consumed so far
    now,                \* timestamp of the current tick, minutes
    enough,             \* the history guard of run_backtest has been passed
    last_close,         \* close of the last candle of data_5m
    analysis,           \* the dict analyze_market returned for this tick
    positions,          \* UnifiedTrader.positions
    trades,             \* UnifiedTrader.trades
    capital,            \* UnifiedTrader.capital
    grid,               \* grid_prices, base_price, grid_initialized_at, last_bb_width
    today_trade_count,  \* UnifiedTrader.today_trade_count
    last_trade_time,    \* UnifiedTrader.last_trade_time
    current_date,       \* UnifiedTrader.current_date
    daily_stats,        \* UnifiedTrader.daily_stats
    is_running,         \* UnifiedTrader.is_running
    buys,               \* history: number of execute_buy calls that returned True
    dropped,            \* history: positions popped by execute_sell without a Trade
    returned            \* the last call made from outside the loop, and its result

vars == <<mode, config, strategy, pc, i, tick, now, enough, last_close, analysis, positions,
          trades, capital, grid, today_trade_count, last_trade_time,
          current_date, daily_stats, is_running, buys, dropped, returned>>

(***************************************************************************)
(* Bounds of the model.                                                    *)
(***************************************************************************)
\* Number of candles (backtest) or loop iterations (live) explored.
MaxTicks == 3
FlatTicks == 200
\* config['max_positions'] of the explored configuration.
MaxPositions == 2

NONE == -1

Min(a, b) == IF a <= b THEN a ELSE b
Abs(a) == IF a < 0 THEN -a ELSE a

\* list.pop(idx) for a 1-based index
RemoveAt(s, k) == [j \in 1..(Len(s) - 1) |-> IF j < k THEN s[j] ELSE s[j + 1]]

RECURSIVE Insert(_, _)
Insert(s, x) ==
    IF s = <<>> THEN <<x>>
    ELSE IF x < Head(s) THEN <<x>> \o s
    ELSE <<Head(s)>> \o Insert(Tail(s), x)

\* list.sort() on numbers, ascending
RECURSIVE SortAsc(_)
SortAsc(s) == IF s = <<>> THEN <<>> ELSE Insert(SortAsc(Tail(s)), Head(s))

\* dict.get(key, default)
MdGet(md, key, default) == IF key \in DOMAIN md THEN md[key] ELSE default

(***************************************************************************)
(* Configuration: GridTradingStrategy.__init__ defaults, with the keys the *)
(* explored run sets explicitly.                                           *)
(***************************************************************************)
GridConfig ==
    [ strategy_type             |-> "grid_trading",
      data_length               |-> MaxTicks,   \* len(data_5m), at most
      trade_amount              |-> 200000,
      fee_rate                  |-> 5,      \* 0.05 %
      max_positions             |-> MaxPositions,
      grid_levels               |-> 5,
      grid_spacing              |-> 100,    \* 1.0 %
      max_atr_threshold         |-> 80,     \* 0.8, in hundredths
      single_position_stop_loss |-> -150,   \* -1.5 %
      total_stop_loss           |-> -100,   \* -1.0 %, enabled (nonzero)
      single_grid_profit        |-> 100,    \* 1.0 %
      long_hold_minutes         |-> 0,
      long_hold_loss_threshold  |-> -100,   \* -1.0 %
      grid_reset_hours          |-> 1,
      bb_width_change_threshold |-> 30,     \* 30 %
      use_bb_entry_filter       |-> TRUE,
      bb_entry_position_max     |-> 40,     \* 0.4, in hundredths
      bb_width_multiplier_narrow |-> 100,   \* 1.0, in hundredths
      bb_width_multiplier_wide  |-> 150,    \* 1.5, in hundredths
      cooldown_minutes          |-> 0,
      max_trades_per_day        |-> NONE,
      use_time_filter           |-> FALSE,
      time_filter_mode          |-> "optimal",
      exclude_weekdays          |-> {},
      preferred_weekdays        |-> [given |-> FALSE, days |-> {}],
      allowed_hours             |-> 0..23,
      \* HybridGridStrategy.__init__ defaults
      adx_period                |-> 14,
      adx_trend_threshold       |-> 25,
      adx_range_threshold       |-> 20,
      ema_periods               |-> {20, 50},
      ema_slope_threshold       |-> 50,     \* 0.5 %
      volatility_spike_threshold |-> 15,    \* 1.5, in tenths
      breakout_enabled          |-> TRUE,
      breakout_position_fraction |-> 33,    \* 0.33, in hundredths
      trailing_stop_atr_multiple_long  |-> 15,  \* 1.5, in tenths
      trailing_stop_atr_multiple_short |-> 5,   \* 0.5, in tenths
      std_period                |-> 50 ]

\* The configuration of a run of the hybrid engine: strategy_type as
\* get_hybrid_grid_config sets it
HybridConfig ==
    [GridConfig EXCEPT !.strategy_type = "hybrid_grid", !.trade_amount = 100000]

\* UnifiedTrader.__init__: backtest capital is fixed
InitialCapital == 1000000

(***************************************************************************)
(* GridTradingStrategy                                                     *)
(***************************************************************************)
EmptyGrid ==
    [ grid_prices |-> <<>>, base_price |-> NONE,
      grid_initialized_at |-> NONE, last_bb_width |-> NONE ]

\* the levels built by the loop of initialize_grid, before the sort
\* Levels counted upwards from the base price
GridLevelsFromBase(cfg, current_price) ==
    [k \in 1..(2 * (cfg.grid_levels \div 2) + 1) |->
        (current_price * (10000 + (k - 1) * cfg.grid_spacing)) \div 10000]

GridLevels(cfg, current_price) ==
    LET half == cfg.grid_levels \div 2
    IN  [k \in 1..(2 * half + 1) |->
            (current_price * (10000 + (k - 1 - half) * cfg.grid_spacing)) \div 10000]

\* An initialization that lays the ladder around a price 4 % below the current one
initialize_grid_below(g, cfg, current_price, timestamp) ==
    [ g EXCEPT !.base_price = current_price,
               !.grid_prices = SortAsc(GridLevels(cfg, (current_price * 96) \div 100)),
               !.grid_initialized_at = timestamp ]

\* A re-initialization that keeps the time of the first one
initialize_grid_keeping_time(g, cfg, current_price, timestamp) ==
    [ g EXCEPT !.base_price = current_price,
               !.grid_prices = SortAsc(GridLevels(cfg, current_price)),
               !.grid_initialized_at = IF g.grid_initialized_at = NONE THEN timestamp
                                       ELSE g.grid_initialized_at ]

initialize_grid(g, cfg, current_price, timestamp) ==
    [ g EXCEPT !.base_price = current_price,
               !.grid_prices = SortAsc(GridLevels(cfg, current_price)),
               !.grid_initialized_at = timestamp ]

\* min(range(len), key=|level - price|): the first index of least distance
get_nearest_grid_level(g, price) ==
    IF g.grid_prices = <<>> THEN [idx |-> 0, level |-> 0]
    ELSE LET gp == g.grid_prices
             best == CHOOSE k \in 1..Len(gp) :
                        /\ \A j \in 1..Len(gp) : Abs(gp[k] - price) <= Abs(gp[j] - price)
                        /\ \A j \in 1..(k - 1) : Abs(gp[j] - price) > Abs(gp[k] - price)
         IN  [idx |-> best, level |-> gp[best]]

\* Python truthiness of a band value: None and 0 are falsy
Falsy(x) == x = NONE \/ x = 0

\* A filter that lets an entry through only on a band it can measure
check_bb_entry_condition_strict(cfg, md) ==
    /\ ~Falsy(MdGet(md, "bb_upper", NONE))
    /\ ~Falsy(MdGet(md, "bb_lower", NONE))
    /\ md.bb_upper > md.bb_lower
    /\ (md.current_price - md.bb_lower) * 100 <= cfg.bb_entry_position_max * (md.bb_upper - md.bb_lower)

check_bb_entry_condition(cfg, md) ==
    IF ~cfg.use_bb_entry_filter THEN TRUE
    ELSE LET p  == md.current_price
             up == MdGet(md, "bb_upper", NONE)
             lo == MdGet(md, "bb_lower", NONE)
         IN  IF Falsy(up) \/ Falsy(lo) \/ up <= lo THEN TRUE
             ELSE LET width == up - lo
                      \* max_position in 1/10000 of the band
                      raw == IF width * 100 < 4 * p
                                THEN cfg.bb_entry_position_max * cfg.bb_width_multiplier_narrow
                             ELSE IF width * 100 < 8 * p
                                THEN cfg.bb_entry_position_max * 125
                             ELSE cfg.bb_entry_position_max * cfg.bb_width_multiplier_wide
                      max_position == Min(raw, 6500)
                  IN  ~((p - lo) * 10000 > max_position * width)

\* current_bb_width = (bb_upper - bb_lower) / current_price * 100, in bp
BBWidth(md) == ((md.bb_upper - md.bb_lower) * 10000) \div md.current_price

\* width_change_pct >= bb_width_change_threshold; a zero previous width divides
\* numpy floats: x/0 is inf (>= threshold) for x > 0 and nan (never >=) for x = 0
WidthChanged(cfg, last, cur) ==
    IF last = 0 THEN cur # 0
    ELSE Abs(cur - last) * 100 >= cfg.bb_width_change_threshold * Abs(last)

\* A reset check that records the band width before looking at anything else
should_reset_grid_recording_first(g, cfg, md) ==
    LET p  == md.current_price
        t  == MdGet(md, "timestamp", NONE)
        up == MdGet(md, "bb_upper", NONE)
        lo == MdGet(md, "bb_lower", NONE)
        hasBB == ~Falsy(up) /\ ~Falsy(lo)
        cur == BBWidth(md)
        g3 == IF hasBB THEN [g EXCEPT !.last_bb_width = cur] ELSE g
        gp == g.grid_prices
        min_grid == CHOOSE x \in {gp[k] : k \in 1..Len(gp)} :
                        \A y \in {gp[k] : k \in 1..Len(gp)} : x <= y
        max_grid == CHOOSE x \in {gp[k] : k \in 1..Len(gp)} :
                        \A y \in {gp[k] : k \in 1..Len(gp)} : x >= y
    IN  IF g.grid_prices = <<>>
            THEN [reset |-> TRUE, reason |-> "first", grid |-> g3]
        ELSE IF /\ cfg.grid_reset_hours > 0
                /\ g.grid_initialized_at # NONE
                /\ t # NONE
                /\ (t - g.grid_initialized_at) >= 60 * cfg.grid_reset_hours
            THEN [reset |-> TRUE, reason |-> "periodic", grid |-> g3]
        ELSE IF hasBB /\ g.last_bb_width # NONE
                      /\ WidthChanged(cfg, g.last_bb_width, cur)
            THEN [reset |-> TRUE, reason |-> "bb_width", grid |-> g3]
        ELSE IF p * 100 < min_grid * 85 \/ p * 100 > max_grid * 115
            THEN [reset |-> TRUE, reason |-> "price_out", grid |-> g3]
        ELSE [reset |-> FALSE, reason |-> "", grid |-> g3]

\* Returns the verdict and the grid state after the call (last_bb_width is
\* written by check 3).
should_reset_grid(g, cfg, md) ==
    LET p  == md.current_price
        t  == MdGet(md, "timestamp", NONE)
        up == MdGet(md, "bb_upper", NONE)
        lo == MdGet(md, "bb_lower", NONE)
        hasBB == ~Falsy(up) /\ ~Falsy(lo)
        cur == BBWidth(md)
        g3 == IF hasBB THEN [g EXCEPT !.last_bb_width = cur] ELSE g
        gp == g.grid_prices
        min_grid == CHOOSE x \in {gp[k] : k \in 1..Len(gp)} :
                        \A y \in {gp[k] : k \in 1..Len(gp)} : x <= y
        max_grid == CHOOSE x \in {gp[k] : k \in 1..Len(gp)} :
                        \A y \in {gp[k] : k \in 1..Len(gp)} : x >= y
    IN  IF g.grid_prices = <<>>
            THEN [reset |-> TRUE, reason |-> "first", grid |-> g]
        ELSE IF /\ cfg.grid_reset_hours > 0
                /\ g.grid_initialized_at # NONE
                /\ t # NONE
                /\ (t - g.grid_initialized_at) >= 60 * cfg.grid_reset_hours
            THEN [reset |-> TRUE, reason |-> "periodic", grid |-> g]
        ELSE IF hasBB /\ g.last_bb_width # NONE
                      /\ WidthChanged(cfg, g.last_bb_width, cur)
            THEN [reset |-> TRUE, reason |-> "bb_width", grid |-> g3]
        ELSE IF p * 100 < min_grid * 85 \/ p * 100 > max_grid * 115
            THEN [reset |-> TRUE, reason |-> "price_out", grid |-> g3]
        ELSE [reset |-> FALSE, reason |-> "", grid |-> g3]

\* An entry check that looks at the grid's age before the position cap
check_entry_conditions_reset_first(g, cfg, md) ==
    LET p == md.current_price
        sr == should_reset_grid(g, cfg, md)
        g4 == IF sr.reset THEN initialize_grid(sr.grid, cfg, p, MdGet(md, "timestamp", NONE))
              ELSE sr.grid
        near == get_nearest_grid_level(g4, p)
        diff == (p - near.level) * 10000
    IN  IF MdGet(md, "active_positions", 0) >= cfg.max_positions
            THEN [ok |-> FALSE, reason |-> "max_positions", grid |-> g4]
        ELSE IF MdGet(md, "atr_ma", 0) > 0
                  /\ MdGet(md, "atr", 0) * 100 > cfg.max_atr_threshold * MdGet(md, "atr_ma", 0)
            THEN [ok |-> FALSE, reason |-> "volatility", grid |-> g4]
        ELSE IF ~check_bb_entry_condition(cfg, md)
            THEN [ok |-> FALSE, reason |-> "bb_position", grid |-> g4]
        ELSE IF near.idx < 1
            THEN [ok |-> FALSE, reason |-> "no_grid", grid |-> g4]
        ELSE IF ~(-20 * near.level <= diff /\ diff <= 10 * near.level)
            THEN [ok |-> FALSE, reason |-> "not_at_level", grid |-> g4]
        ELSE IF near.idx > (Len(g4.grid_prices) \div 2) + 1
            THEN [ok |-> FALSE, reason |-> "upper_half", grid |-> g4]
        ELSE [ok |-> TRUE, reason |-> "grid_buy", grid |-> g4]

\* An entry check that runs the grid reset before the Bollinger filter
check_entry_conditions_reset_before_bb(g, cfg, md) ==
    LET p == md.current_price
        active_positions == MdGet(md, "active_positions", 0)
        atr == MdGet(md, "atr", 0)
        atr_ma == MdGet(md, "atr_ma", 0)
        sr == should_reset_grid(g, cfg, md)
        g4 == IF sr.reset THEN initialize_grid(sr.grid, cfg, p, MdGet(md, "timestamp", NONE))
              ELSE sr.grid
        near == get_nearest_grid_level(g4, p)
        diff == (p - near.level) * 10000      \* price_diff_pct * near.level, in bp
        mid_idx == (Len(g4.grid_prices) \div 2) + 1
    IN  IF active_positions >= cfg.max_positions
            THEN [ok |-> FALSE, reason |-> "max_positions", grid |-> g]
        ELSE IF atr_ma > 0 /\ atr * 100 > cfg.max_atr_threshold * atr_ma
            THEN [ok |-> FALSE, reason |-> "volatility", grid |-> g]
        ELSE IF ~check_bb_entry_condition(cfg, md)
            THEN [ok |-> FALSE, reason |-> "bb_position", grid |-> g4]
        ELSE IF near.idx < 1
            THEN [ok |-> FALSE, reason |-> "no_grid", grid |-> g4]
        ELSE IF ~(-20 * near.level <= diff /\ diff <= 10 * near.level)
            THEN [ok |-> FALSE, reason |-> "not_at_level", grid |-> g4]
        ELSE IF near.idx > mid_idx
            THEN [ok |-> FALSE, reason |-> "upper_half", grid |-> g4]
        ELSE [ok |-> TRUE, reason |-> "grid_buy", grid |-> g4]

\* An entry check without the level-half test
check_entry_conditions_any_level(g, cfg, md) ==
    LET p == md.current_price
        active_positions == MdGet(md, "active_positions", 0)
        atr == MdGet(md, "atr", 0)
        atr_ma == MdGet(md, "atr_ma", 0)
        sr == should_reset_grid(g, cfg, md)
        g4 == IF sr.reset THEN initialize_grid(sr.grid, cfg, p, MdGet(md, "timestamp", NONE))
              ELSE sr.grid
        near == get_nearest_grid_level(g4, p)
        diff == (p - near.level) * 10000      \* price_diff_pct * near.level, in bp
        mid_idx == (Len(g4.grid_prices) \div 2) + 1
    IN  IF active_positions >= cfg.max_positions
            THEN [ok |-> FALSE, reason |-> "max_positions", grid |-> g]
        ELSE IF atr_ma > 0 /\ atr * 100 > cfg.max_atr_threshold * atr_ma
            THEN [ok |-> FALSE, reason |-> "volatility", grid |-> g]
        ELSE IF ~check_bb_entry_condition(cfg, md)
            THEN [ok |-> FALSE, reason |-> "bb_position", grid |-> g]
        ELSE IF near.idx < 1
            THEN [ok |-> FALSE, reason |-> "no_grid", grid |-> g4]
        ELSE IF ~(-20 * near.level <= diff /\ diff <= 10 * near.level)
            THEN [ok |-> FALSE, reason |-> "not_at_level", grid |-> g4]
        ELSE [ok |-> TRUE, reason |-> "grid_buy", grid |-> g4]

\* An entry check without the position cap
check_entry_conditions_without_cap(g, cfg, md) ==
    LET p == md.current_price
        active_positions == MdGet(md, "active_positions", 0)
        atr == MdGet(md, "atr", 0)
        atr_ma == MdGet(md, "atr_ma", 0)
        sr == should_reset_grid(g, cfg, md)
        g4 == IF sr.reset THEN initialize_grid(sr.grid, cfg, p, MdGet(md, "timestamp", NONE))
              ELSE sr.grid
        near == get_nearest_grid_level(g4, p)
        diff == (p - near.level) * 10000      \* price_diff_pct * near.level, in bp
        mid_idx == (Len(g4.grid_prices) \div 2) + 1
    IN  IF atr_ma > 0 /\ atr * 100 > cfg.max_atr_threshold * atr_ma
            THEN [ok |-> FALSE, reason |-> "volatility", grid |-> g]
        ELSE IF ~check_bb_entry_condition(cfg, md)
            THEN [ok |-> FALSE, reason |-> "bb_position", grid |-> g]
        ELSE IF near.idx < 1
            THEN [ok |-> FALSE, reason |-> "no_grid", grid |-> g4]
        ELSE IF ~(-20 * near.level <= diff /\ diff <= 10 * near.level)
            THEN [ok |-> FALSE, reason |-> "not_at_level", grid |-> g4]
        ELSE IF near.idx > mid_idx
            THEN [ok |-> FALSE, reason |-> "upper_half", grid |-> g4]
        ELSE [ok |-> TRUE, reason |-> "grid_buy", grid |-> g4]

\* Returns the verdict and the grid state after the call.
check_entry_conditions(g, cfg, md) ==
    LET p == md.current_price
        active_positions == MdGet(md, "active_positions", 0)
        atr == MdGet(md, "atr", 0)
        atr_ma == MdGet(md, "atr_ma", 0)
        sr == should_reset_grid(g, cfg, md)
        g4 == IF sr.reset THEN initialize_grid(sr.grid, cfg, p, MdGet(md, "timestamp", NONE))
              ELSE sr.grid
        near == get_nearest_grid_level(g4, p)
        diff == (p - near.level) * 10000      \* price_diff_pct * near.level, in bp
        mid_idx == (Len(g4.grid_prices) \div 2) + 1
    IN  IF active_positions >= cfg.max_positions
            THEN [ok |-> FALSE, reason |-> "max_positions", grid |-> g]
        ELSE IF atr_ma > 0 /\ atr * 100 > cfg.max_atr_threshold * atr_ma
            THEN [ok |-> FALSE, reason |-> "volatility", grid |-> g]
        ELSE IF ~check_bb_entry_condition(cfg, md)
            THEN [ok |-> FALSE, reason |-> "bb_position", grid |-> g]
        ELSE IF near.idx < 1
            THEN [ok |-> FALSE, reason |-> "no_grid", grid |-> g4]
        ELSE IF ~(-20 * near.level <= diff /\ diff <= 10 * near.level)
            THEN [ok |-> FALSE, reason |-> "not_at_level", grid |-> g4]
        ELSE IF near.idx > mid_idx
            THEN [ok |-> FALSE, reason |-> "upper_half", grid |-> g4]
        ELSE [ok |-> TRUE, reason |-> "grid_buy", grid |-> g4]

\* profit_rate <= bp / 100, with profit_rate = (current - entry) / entry * 100
RateLE(current_price, entry_price, bp) ==
    (current_price - entry_price) * 10000 <= bp * entry_price
RateLT(current_price, entry_price, bp) ==
    (current_price - entry_price) * 10000 < bp * entry_price

NoExit == [sell |-> FALSE, kind |-> "", reason |-> ""]

\* An exit check that looks at the next grid level before the portfolio stop
check_exit_conditions_grid_level_first(g, cfg, position, md, holding_minutes) ==
    LET p == md.current_price
        e == position.entry_price
        total_profit_rate == MdGet(md, "total_profit_rate", 0)
        entry_grid_level == MdGet(position, "entry_grid_level", 0)
        target_level == entry_grid_level + 1
        atr == MdGet(md, "atr", 0)
        atr_ma == MdGet(md, "atr_ma", 0)
    IN  IF RateLE(p, e, cfg.single_position_stop_loss)
            THEN [sell |-> TRUE, kind |-> "STOP_LOSS", reason |-> "single_stop_loss"]
        ELSE IF ~RateLT(p, e, cfg.single_grid_profit)
            THEN [sell |-> TRUE, kind |-> "TAKE_PROFIT", reason |-> "grid_profit"]
        ELSE IF /\ entry_grid_level >= 1
                /\ g.grid_prices # <<>>
                /\ target_level <= Len(g.grid_prices)
                /\ p >= g.grid_prices[target_level]
            THEN [sell |-> TRUE, kind |-> "TAKE_PROFIT", reason |-> "next_grid"]
        ELSE IF total_profit_rate <= cfg.total_stop_loss /\ cfg.total_stop_loss # 0
            THEN [sell |-> TRUE, kind |-> "STOP_LOSS", reason |-> "total_stop_loss"]
        ELSE IF atr_ma > 0 /\ atr * 10 > 15 * atr_ma /\ ~RateLE(p, e, 50)
            THEN [sell |-> TRUE, kind |-> "TAKE_PROFIT", reason |-> "vol_spike_profit"]
        ELSE IF atr_ma > 0 /\ atr * 10 > 15 * atr_ma /\ RateLT(p, e, -30)
            THEN [sell |-> TRUE, kind |-> "TAKE_PROFIT", reason |-> "vol_spike_loss"]
        ELSE IF /\ cfg.long_hold_minutes > 0
                /\ holding_minutes >= cfg.long_hold_minutes
                /\ RateLT(p, e, cfg.long_hold_loss_threshold)
            THEN [sell |-> TRUE, kind |-> "STOP_LOSS", reason |-> "long_hold"]
        ELSE NoExit

check_exit_conditions(g, cfg, position, md, holding_minutes) ==
    LET p == md.current_price
        e == position.entry_price
        total_profit_rate == MdGet(md, "total_profit_rate", 0)
        entry_grid_level == MdGet(position, "entry_grid_level", 0)
        target_level == entry_grid_level + 1
        atr == MdGet(md, "atr", 0)
        atr_ma == MdGet(md, "atr_ma", 0)
    IN  IF RateLE(p, e, cfg.single_position_stop_loss)
            THEN [sell |-> TRUE, kind |-> "STOP_LOSS", reason |-> "single_stop_loss"]
        ELSE IF ~RateLT(p, e, cfg.single_grid_profit)
            THEN [sell |-> TRUE, kind |-> "TAKE_PROFIT", reason |-> "grid_profit"]
        ELSE IF total_profit_rate <= cfg.total_stop_loss /\ cfg.total_stop_loss # 0
            THEN [sell |-> TRUE, kind |-> "STOP_LOSS", reason |-> "total_stop_loss"]
        ELSE IF /\ entry_grid_level >= 1
                /\ g.grid_prices # <<>>
                /\ target_level <= Len(g.grid_prices)
                /\ p >= g.grid_prices[target_level]
            THEN [sell |-> TRUE, kind |-> "TAKE_PROFIT", reason |-> "next_grid"]
        ELSE IF atr_ma > 0 /\ atr * 10 > 15 * atr_ma /\ ~RateLE(p, e, 50)
            THEN [sell |-> TRUE, kind |-> "TAKE_PROFIT", reason |-> "vol_spike_profit"]
        ELSE IF atr_ma > 0 /\ atr * 10 > 15 * atr_ma /\ RateLT(p, e, -30)
            THEN [sell |-> TRUE, kind |-> "TAKE_PROFIT", reason |-> "vol_spike_loss"]
        ELSE IF /\ cfg.long_hold_minutes > 0
                /\ holding_minutes >= cfg.long_hold_minutes
                /\ RateLT(p, e, cfg.long_hold_loss_threshold)
            THEN [sell |-> TRUE, kind |-> "STOP_LOSS", reason |-> "long_hold"]
        ELSE NoExit

(***************************************************************************)
(* HybridGridStrategy.  df is what the indicator library reads off the     *)
(* price history handed to the strategy: its length, the ADX, the averaged *)
(* EMA slope (bp) and the rolling standard deviation with its mean.        *)
(***************************************************************************)
NoDf == [len |-> NONE, adx |-> 0, avg_ema_slope |-> 0, current_std |-> 0, mean_std |-> 0]

MaxOf(S) == CHOOSE x \in S : \A y \in S : x >= y

\* A classifier that calls every strong ADX a trend, whatever the slope
determine_market_mode_adx_only(cfg, df) ==
    IF df.adx > cfg.adx_trend_threshold THEN "TREND"
    ELSE IF df.adx < cfg.adx_range_threshold THEN "RANGE"
    ELSE "NEUTRAL"

\* A classifier whose thresholds are inclusive
determine_market_mode_inclusive(cfg, df) ==
    IF df.adx >= cfg.adx_trend_threshold /\ Abs(df.avg_ema_slope) >= cfg.ema_slope_threshold
        THEN "TREND"
    ELSE IF df.adx <= cfg.adx_range_threshold THEN "RANGE"
    ELSE "NEUTRAL"

determine_market_mode(cfg, df) ==
    IF df.adx > cfg.adx_trend_threshold /\ Abs(df.avg_ema_slope) > cfg.ema_slope_threshold
        THEN "TREND"
    ELSE IF df.adx < cfg.adx_range_threshold THEN "RANGE"
    ELSE "NEUTRAL"

\* A breakout entry check that takes a deviation exactly at the multiple for a spike
check_breakout_entry_inclusive(cfg, md, df, market_mode) ==
    IF ~cfg.breakout_enabled
        THEN [ok |-> FALSE, direction |-> "", reason |-> "breakout_disabled"]
    ELSE IF market_mode # "TREND"
        THEN [ok |-> FALSE, direction |-> "", reason |-> "mode_mismatch"]
    ELSE IF df.current_std * 10 < df.mean_std * cfg.volatility_spike_threshold
        THEN [ok |-> FALSE, direction |-> "", reason |-> "no_volatility_spike"]
    ELSE IF df.avg_ema_slope > cfg.ema_slope_threshold
        THEN [ok |-> TRUE, direction |-> "long", reason |-> "breakout_long"]
    ELSE IF df.avg_ema_slope < -cfg.ema_slope_threshold
        THEN [ok |-> TRUE, direction |-> "short", reason |-> "breakout_short"]
    ELSE [ok |-> FALSE, direction |-> "", reason |-> "trend_unclear"]

check_breakout_entry(cfg, md, df, market_mode) ==
    IF ~cfg.breakout_enabled
        THEN [ok |-> FALSE, direction |-> "", reason |-> "breakout_disabled"]
    ELSE IF market_mode # "TREND"
        THEN [ok |-> FALSE, direction |-> "", reason |-> "mode_mismatch"]
    ELSE IF df.current_std * 10 <= df.mean_std * cfg.volatility_spike_threshold
        THEN [ok |-> FALSE, direction |-> "", reason |-> "no_volatility_spike"]
    ELSE IF df.avg_ema_slope > cfg.ema_slope_threshold
        THEN [ok |-> TRUE, direction |-> "long", reason |-> "breakout_long"]
    ELSE IF df.avg_ema_slope < -cfg.ema_slope_threshold
        THEN [ok |-> TRUE, direction |-> "short", reason |-> "breakout_short"]
    ELSE [ok |-> FALSE, direction |-> "", reason |-> "trend_unclear"]

\* HybridGridStrategy.check_entry_conditions(market_data, df).  Returns the
\* verdict, the grid state and the market_data dict after the call (an
\* accepted entry writes its tags into market_data).
\* ge is the verdict of the parent's (grid) entry check
GridVerdict(ge, md, market_mode, tagged) ==
    [ok |-> ge.ok, reason |-> ge.reason, grid |-> ge.grid,
     md |-> IF tagged /\ ge.ok THEN ("sub_strategy" :> "grid") @@ md ELSE md,
     market_mode |-> market_mode]

\* be is the verdict of check_breakout_entry
BreakoutVerdict(be, g, md, market_mode) ==
    [ok |-> be.ok, reason |-> be.reason, grid |-> g,
     md |-> IF be.ok THEN ("sub_strategy" :> "breakout") @@
                          ("direction" :> be.direction) @@ md
            ELSE md,
     market_mode |-> market_mode]

HistoryTooShort(cfg, df) ==
    df.len = NONE
        \/ df.len < MaxOf({cfg.adx_period, MaxOf(cfg.ema_periods), cfg.std_period})

\* A hybrid entry check that runs the grid check (and its grid reset) in
\* every mode before routing
hybrid_check_entry_conditions_grid_first(g, cfg, md, df) ==
    IF HistoryTooShort(cfg, df)
        THEN GridVerdict(check_entry_conditions(g, cfg, md), md, "NONE", FALSE)
    ELSE IF determine_market_mode(cfg, df) \in {"RANGE", "NEUTRAL"}
        THEN GridVerdict(check_entry_conditions(g, cfg, md), md,
                         determine_market_mode(cfg, df), TRUE)
    ELSE BreakoutVerdict(check_breakout_entry(cfg, md, df, determine_market_mode(cfg, df)),
                         check_entry_conditions(g, cfg, md).grid, md,
                         determine_market_mode(cfg, df))

hybrid_check_entry_conditions(g, cfg, md, df) ==
    IF HistoryTooShort(cfg, df)
        THEN GridVerdict(check_entry_conditions(g, cfg, md), md, "NONE", FALSE)
    ELSE IF determine_market_mode(cfg, df) \in {"RANGE", "NEUTRAL"}
        THEN GridVerdict(check_entry_conditions(g, cfg, md), md,
                         determine_market_mode(cfg, df), TRUE)
    ELSE BreakoutVerdict(check_breakout_entry(cfg, md, df, determine_market_mode(cfg, df)),
                         g, md, determine_market_mode(cfg, df))

\* A breakout exit that trails the entry price instead of the running peak
check_breakout_exit_from_entry(cfg, position, md, holding_minutes) ==
    IF MdGet(position, "direction", "long") = "long"
          /\ MdGet(md, "atr", 0) > 0
          /\ md.current_price * 10
                <= position.entry_price * 10
                     - MdGet(md, "atr", 0) * cfg.trailing_stop_atr_multiple_long
        THEN [sell |-> TRUE, kind |-> "TAKE_PROFIT", reason |-> "long_trailing_stop",
              position |-> position]
    ELSE [sell |-> FALSE, kind |-> "", reason |-> "", position |-> position]

\* A breakout exit that tests the short take-profit before the short stop
check_breakout_exit_profit_first(cfg, position, md, holding_minutes) ==
    LET p == md.current_price
        e == position.entry_price
        direction == MdGet(position, "direction", "long")
        atr == MdGet(md, "atr", 0)
        hi0 == MdGet(position, "highest_price", e)
        hi == IF p > hi0 THEN p ELSE hi0
        posL == IF p > hi0 THEN ("highest_price" :> p) @@ position ELSE position
        lo0 == MdGet(position, "lowest_price", e)
        lo == IF p < lo0 THEN p ELSE lo0
        posS == IF p < lo0 THEN ("lowest_price" :> p) @@ position ELSE position
    IN  IF direction = "long"
            THEN IF atr > 0 /\ p * 10 <= hi * 10 - atr * cfg.trailing_stop_atr_multiple_long
                    THEN [sell |-> TRUE, kind |-> "TAKE_PROFIT",
                          reason |-> "long_trailing_stop", position |-> posL]
                 ELSE IF RateLE(p, e, -200)
                    THEN [sell |-> TRUE, kind |-> "STOP_LOSS",
                          reason |-> "long_stop_loss", position |-> posL]
                 ELSE [sell |-> FALSE, kind |-> "", reason |-> "", position |-> posL]
        ELSE IF direction = "short"
            THEN IF ~RateLT(p, e, 200)
                    THEN [sell |-> TRUE, kind |-> "TAKE_PROFIT",
                          reason |-> "short_take_profit", position |-> posS]
                 ELSE IF atr > 0 /\ p * 10 >= lo * 10 + atr * cfg.trailing_stop_atr_multiple_short
                    THEN [sell |-> TRUE, kind |-> "STOP_LOSS",
                          reason |-> "short_stop_loss", position |-> posS]
                 ELSE [sell |-> FALSE, kind |-> "", reason |-> "", position |-> posS]
        ELSE [sell |-> FALSE, kind |-> "", reason |-> "", position |-> position]

\* Returns the verdict and the position dict after the call (the running
\* extremum is written into it).
check_breakout_exit(cfg, position, md, holding_minutes) ==
    LET p == md.current_price
        e == position.entry_price
        direction == MdGet(position, "direction", "long")
        atr == MdGet(md, "atr", 0)
        hi0 == MdGet(position, "highest_price", e)
        hi == IF p > hi0 THEN p ELSE hi0
        posL == IF p > hi0 THEN ("highest_price" :> p) @@ position ELSE position
        lo0 == MdGet(position, "lowest_price", e)
        lo == IF p < lo0 THEN p ELSE lo0
        posS == IF p < lo0 THEN ("lowest_price" :> p) @@ position ELSE position
    IN  IF direction = "long"
            THEN IF atr > 0 /\ p * 10 <= hi * 10 - atr * cfg.trailing_stop_atr_multiple_long
                    THEN [sell |-> TRUE, kind |-> "TAKE_PROFIT",
                          reason |-> "long_trailing_stop", position |-> posL]
                 ELSE IF RateLE(p, e, -200)
                    THEN [sell |-> TRUE, kind |-> "STOP_LOSS",
                          reason |-> "long_stop_loss", position |-> posL]
                 ELSE [sell |-> FALSE, kind |-> "", reason |-> "", position |-> posL]
        ELSE IF direction = "short"
            THEN IF atr > 0 /\ p * 10 >= lo * 10 + atr * cfg.trailing_stop_atr_multiple_short
                    THEN [sell |-> TRUE, kind |-> "STOP_LOSS",
                          reason |-> "short_stop_loss", position |-> posS]
                 ELSE IF ~RateLT(p, e, 200)
                    THEN [sell |-> TRUE, kind |-> "TAKE_PROFIT",
                          reason |-> "short_take_profit", position |-> posS]
                 ELSE [sell |-> FALSE, kind |-> "", reason |-> "", position |-> posS]
        ELSE [sell |-> FALSE, kind |-> "", reason |-> "", position |-> position]

\* ge is the verdict of the parent's (grid) exit check, which leaves the
\* position dict as it is
GridExitVerdict(ge, position) ==
    [sell |-> ge.sell, kind |-> ge.kind, reason |-> ge.reason, position |-> position]

\* HybridGridStrategy.check_exit_conditions: dispatch on the position's tag
hybrid_check_exit_conditions(g, cfg, position, md, holding_minutes) ==
    IF MdGet(position, "sub_strategy", "grid") = "breakout"
        THEN check_breakout_exit(cfg, position, md, holding_minutes)
    ELSE GridExitVerdict(check_exit_conditions(g, cfg, position, md, holding_minutes),
                         position)

\* self.strategy.check_entry_conditions / check_exit_conditions: the method
\* of the strategy's class
StrategyEntry(g, cfg, md, df) ==
    IF strategy = "HybridGridStrategy"
        THEN hybrid_check_entry_conditions(g, cfg, md, df)
    ELSE GridVerdict(check_entry_conditions(g, cfg, md), md, "NONE", FALSE)

StrategyExit(g, cfg, position, md, holding_minutes) ==
    IF strategy = "HybridGridStrategy"
        THEN hybrid_check_exit_conditions(g, cfg, position, md, holding_minutes)
    ELSE GridExitVerdict(check_exit_conditions(g, cfg, position, md, holding_minutes),
                         position)

(***************************************************************************)
(* BaseStrategy.is_trading_hours.  The data starts on a Monday at 00:00.   *)
(***************************************************************************)
Hour(ts) == (ts \div 60) % 24
Weekday(ts) == (ts \div 1440) % 7
Date(ts) == ts \div 1440

is_trading_hours(cfg, ts) ==
    IF ~cfg.use_time_filter THEN TRUE
    ELSE IF Weekday(ts) \in cfg.exclude_weekdays THEN FALSE
    ELSE IF cfg.preferred_weekdays.given /\ Weekday(ts) \notin cfg.preferred_weekdays.days
        THEN FALSE
    ELSE IF cfg.time_filter_mode = "optimal"
        THEN (6 <= Hour(ts) /\ Hour(ts) <= 12) \/ Hour(ts) >= 23 \/ Hour(ts) <= 2
    ELSE IF cfg.time_filter_mode = "safe"
        THEN Hour(ts) \notin {3, 4, 5, 14, 15, 19, 20, 21}
    ELSE IF cfg.time_filter_mode = "peak"
        THEN (6 <= Hour(ts) /\ Hour(ts) <= 9) \/ Hour(ts) = 0 \/ Hour(ts) = 23
    ELSE IF cfg.time_filter_mode = "custom"
        THEN Hour(ts) \in cfg.allowed_hours
    ELSE TRUE

(***************************************************************************)
(* UnifiedTrader: analysis, gating, fills                                  *)
(***************************************************************************)
\* The dict analyze_market builds (the keys the strategy and the ledger read).
\* It has no 'total_profit_rate' key.
analyze_market(c, ts, n_positions) ==
    [ current_price    |-> c.close,
      timestamp        |-> ts,
      bb_upper         |-> c.bb_upper,
      bb_lower         |-> c.bb_lower,
      atr              |-> c.atr,
      atr_ma           |-> c.atr_ma,
      active_positions |-> n_positions ]

NoAnalysis ==
    [ current_price |-> 0, timestamp |-> NONE, bb_upper |-> NONE, bb_lower |-> NONE,
      atr |-> 0, atr_ma |-> 0, active_positions |-> 0 ]

\* can_trade: the day roll-over it performs, and its verdict
DayRolled(ts) == current_date # Date(ts)
CountAfterRoll(ts) == IF DayRolled(ts) THEN 0 ELSE today_trade_count

\* A gate that ignores the daily trade count
can_trade_without_daily_cap(cfg, ts) ==
    ~(last_trade_time # NONE /\ (ts - last_trade_time) < cfg.cooldown_minutes)

\* A gate that ignores the cooldown
can_trade_without_cooldown(cfg, ts) ==
    ~(cfg.max_trades_per_day # NONE /\ CountAfterRoll(ts) >= cfg.max_trades_per_day)

can_trade(cfg, ts) ==
    /\ ~(cfg.max_trades_per_day # NONE /\ CountAfterRoll(ts) >= cfg.max_trades_per_day)
    /\ ~(last_trade_time # NONE /\ (ts - last_trade_time) < cfg.cooldown_minutes)

\* A buy that debits the per-position notional whatever the capital
BuyAmountUncapped(cfg, cap) ==
    IF cfg.strategy_type = "grid_trading"
        THEN cfg.trade_amount \div cfg.max_positions
    ELSE cfg.trade_amount

\* execute_buy, backtest branch: the notional debited and its fee
BuyAmount(cfg, cap) ==
    IF cfg.strategy_type = "grid_trading"
        THEN Min(cap, cfg.trade_amount \div cfg.max_positions)
    ELSE Min(cap, cfg.trade_amount)

\* entry_grid_level: the nearest level for a grid_trading run, else none
EntryGridLevel(cfg, g, price) ==
    IF cfg.strategy_type = "grid_trading" THEN get_nearest_grid_level(g, price).idx ELSE 0
BuyFee(cfg, amount) == (amount * cfg.fee_rate) \div 10000

\* The position dict of execute_buy (backtest).  'quantity' is
\* amount / entry_price and is kept as that ratio.
NewPosition(cfg, g, cap, md, ts) ==
    LET amount == BuyAmount(cfg, cap)
        fee == BuyFee(cfg, amount)
    IN  [ entry_time       |-> ts,
          entry_price      |-> md.current_price,
          amount           |-> amount - fee,
          fee              |-> fee,
          entry_grid_level |-> EntryGridLevel(cfg, g, md.current_price) ]

\* The position dict of execute_buy (live): the amount is the order's notional
NewLivePosition(cfg, g, krw_balance, md, ts) ==
    [ entry_time       |-> ts,
      entry_price      |-> md.current_price,
      amount           |-> BuyAmount(cfg, krw_balance),
      fee              |-> 0,
      entry_grid_level |-> EntryGridLevel(cfg, g, md.current_price) ]

\* execute_sell, backtest branch
SellAmount(position, exit_price) == (position.amount * exit_price) \div position.entry_price
NetAmount(cfg, position, exit_price) ==
    SellAmount(position, exit_price)
        - (SellAmount(position, exit_price) * cfg.fee_rate) \div 10000
TradeProfit(cfg, position, exit_price) ==
    NetAmount(cfg, position, exit_price) - position.amount

\* A trade dict whose holding_time is the exit timestamp itself
NewTradeAbsoluteHolding(cfg, position, md, ts, reason) ==
    [ timestamp    |-> ts,
      entry_time   |-> position.entry_time,
      entry_price  |-> position.entry_price,
      exit_price   |-> md.current_price,
      profit       |-> TradeProfit(cfg, position, md.current_price),
      profit_rate  |-> (TradeProfit(cfg, position, md.current_price) * 10000)
                            \div position.amount,
      holding_time |-> ts,
      reason       |-> reason ]

\* The trade dict of execute_sell (backtest)
NewTrade(cfg, position, md, ts, reason) ==
    LET profit == TradeProfit(cfg, position, md.current_price)
    IN  [ timestamp    |-> ts,
          entry_time   |-> position.entry_time,
          entry_price  |-> position.entry_price,
          exit_price   |-> md.current_price,
          profit       |-> profit,
          profit_rate  |-> (profit * 10000) \div position.amount,
          holding_time |-> ts - position.entry_time,
          reason       |-> reason ]

\* The trade dict of execute_sell (live): the whole balance is sold
NewLiveTrade(position, md, ts, reason, volume) ==
    [ timestamp    |-> ts,
      entry_time   |-> position.entry_time,
      entry_price  |-> position.entry_price,
      exit_price   |-> md.current_price,
      profit       |-> (md.current_price - position.entry_price) * volume,
      profit_rate  |-> ((md.current_price - position.entry_price) * 10000)
                            \div position.entry_price,
      holding_time |-> ts - position.entry_time,
      reason       |-> reason ]

update_daily_stats(stats, date, trade) ==
    LET known == \E k \in 1..Len(stats) : stats[k].date = date
        base == IF known THEN stats
                ELSE Append(stats, [date |-> date, trades |-> 0, wins |-> 0,
                                    losses |-> 0, total_profit |-> 0])
        at == CHOOSE k \in 1..Len(base) :
                 base[k].date = date /\ \A j \in 1..(k - 1) : base[j].date # date
        win == trade.profit_rate > 0
    IN  [base EXCEPT ![at] =
            [ date         |-> date,
              trades       |-> base[at].trades + 1,
              wins         |-> base[at].wins + (IF win THEN 1 ELSE 0),
              losses       |-> base[at].losses + (IF win THEN 0 ELSE 1),
              total_profit |-> base[at].total_profit + trade.profit_rate ]]

(***************************************************************************)
(* Market data.  A candle carries the close and the indicator readings     *)
(* analyze_market derives at that candle; dt is the time since the         *)
(* previous candle (the series may have gaps).                             *)
(***************************************************************************)
Candle(close, atr, atr_ma, bb_upper, bb_lower, dt) ==
    [ close |-> close, atr |-> atr, atr_ma |-> atr_ma,
      bb_upper |-> bb_upper, bb_lower |-> bb_lower, dt |-> dt ]

Closes == {9800, 9850, 9900, 10000, 10100}

Candles ==
    \* calm market, no band data: every close
    { Candle(p, 5, 10, NONE, NONE, 5) : p \in Closes }
    \* the volatility gate closed, and an ATR spike
    \cup { Candle(p, a, 10, NONE, NONE, 5) : p \in {9900, 10000}, a \in {10, 20} }
    \* band data: a 4 % band and a 2 % band around 10000
    \cup { Candle(p, 5, 10, 10200, 9800, 5) : p \in {9850, 10000} }
    \cup { Candle(p, 5, 10, 10100, 9900, 5) : p \in {9900, 10000} }
    \* a gap of an hour, and a close far outside the grid
    \cup { Candle(p, 5, 10, NONE, NONE, 60) : p \in {9900, 12000} }

\* Live mode polls once a minute
LiveCandles ==
    { Candle(p, 5, 10, NONE, NONE, 1) : p \in {9800, 9900, 10000, 10100} }
    \cup { Candle(10000, 5, 10, 10200, 9800, 1), Candle(9900, 20, 10, NONE, NONE, 1),
           Candle(10000, 5, 10, NONE, NONE, 60) }

\* Exchange answers in live mode
KrwBalances == {100000}
CoinBalances == {0, 10}

(***************************************************************************)
(* The loop.  Within a tick the phases run in the order of TickPhases.     *)
(***************************************************************************)
\* A loop that evaluates entries before exits
EntryFirst == <<"entry", "exit">>

TickPhases == <<"exit", "entry">>

PhaseAfter(ph) == IF ph = TickPhases[1] THEN TickPhases[2] ELSE "idle"

\* Entering a phase: the exit loop starts at the last position
StartIndex(ph, ps) == IF ph = "exit" THEN Len(ps) ELSE 0

\* UnifiedTrader.__init__ with the strategy instance it is given
\* No call from outside the loop has been made
NoCall == [call |-> "", args |-> <<>>, result |-> <<>>]

InitWith(modes, cls, cfg) ==
    /\ mode \in modes
    /\ config = cfg
    /\ strategy = cls
    /\ pc = "idle"
    /\ i = 0
    /\ tick = 0
    /\ now = 0
    /\ enough = FALSE
    /\ last_close = 0
    /\ analysis = NoAnalysis
    /\ positions = <<>>
    /\ trades = <<>>
    /\ capital = InitialCapital
    /\ grid = EmptyGrid
    /\ today_trade_count = 0
    /\ last_trade_time = NONE
    /\ current_date = NONE
    /\ daily_stats = <<>>
    /\ is_running = (mode = "live")
    /\ buys = 0
    /\ dropped = 0
    /\ returned = NoCall

\* create_strategy builds a GridTradingStrategy for strategy_type grid_trading
Init == InitWith({"backtest", "live"}, "GridTradingStrategy", GridConfig)

\* run_backtest: the head of one iteration of `for idx in range(len(data_5m))`,
\* up to analyze_market
BeginTick(c, hist) ==
    /\ mode = "backtest"
    /\ pc = "idle"
    /\ tick < config.data_length
    /\ tick' = tick + 1
    /\ now' = now + c.dt
    /\ last_close' = c.close
    /\ enough' = (enough \/ hist)
    /\ IF is_trading_hours(config, now') /\ enough'
          THEN /\ analysis' = analyze_market(c, now', Len(positions))
               /\ pc' = TickPhases[1]
               /\ i' = StartIndex(TickPhases[1], positions)
          ELSE /\ analysis' = NoAnalysis
               /\ pc' = "idle"
               /\ i' = 0
    /\ UNCHANGED <<returned, mode, config, strategy, positions, trades, capital, grid,
                   today_trade_count, last_trade_time, current_date,
                   daily_stats, is_running, buys, dropped>>

\* What the exchange answers to the fetches of one live analysis: the candles
\* and the ticker, no candles (fetch_candles returns an empty frame), or the
\* candles without the ticker (get_current_price returns None)
FetchOutcomes == {"ok", "no_candles", "no_price"}

\* run_live: the head of one iteration of `while self.is_running`.  Without
\* candles the analysis carries 'error' and the iteration is abandoned.
\* Without the ticker the analysis carries current_price = None and no
\* 'error'; the arithmetic of _log_grid_trading on it raises TypeError, which
\* run_live does not catch: its `finally` runs stop() and the loop is over.
LiveTick(c, fetch) ==
    /\ mode = "live"
    /\ pc = "idle"
    /\ is_running
    /\ tick < MaxTicks
    /\ tick' = tick + 1
    /\ now' = now + c.dt
    /\ last_close' = c.close
    /\ IF fetch = "ok"
          THEN /\ analysis' = analyze_market(c, now', Len(positions))
               /\ pc' = TickPhases[1]
               /\ i' = StartIndex(TickPhases[1], positions)
               /\ is_running' = is_running
          ELSE /\ analysis' = NoAnalysis
               /\ pc' = IF fetch = "no_candles" THEN "idle" ELSE "done"
               /\ i' = 0
               /\ is_running' = (fetch = "no_candles")
    /\ UNCHANGED <<returned, mode, config, strategy, enough, positions, trades, capital, grid,
                   today_trade_count, last_trade_time, current_date,
                   daily_stats, buys, dropped>>

\* A sell that books the trade of position k and takes the oldest position
\* off the list
execute_sell_popping_first(ps, md, ts, reason, k) ==
    IF ps = <<>> \/ k > Len(ps)
        THEN /\ positions' = ps
             /\ UNCHANGED <<trades, capital, daily_stats, last_trade_time, dropped>>
        ELSE LET trade == NewTrade(config, ps[k], md, ts, reason)
             IN  /\ capital' = capital + NetAmount(config, ps[k], md.current_price)
                 /\ trades' = Append(trades, trade)
                 /\ daily_stats' = update_daily_stats(daily_stats, Date(ts), trade)
                 /\ positions' = RemoveAt(ps, 1)
                 /\ last_trade_time' = ts
                 /\ UNCHANGED dropped

\* A sell that takes an index past the end for the last position
execute_sell_clamping(ps, md, ts, reason, k) ==
    IF ps = <<>>
        THEN /\ positions' = ps
             /\ UNCHANGED <<trades, capital, daily_stats, last_trade_time, dropped>>
        ELSE LET trade == NewTrade(config, ps[Min(k, Len(ps))], md, ts, reason)
             IN  /\ capital' = capital
                                  + NetAmount(config, ps[Min(k, Len(ps))], md.current_price)
                 /\ trades' = Append(trades, trade)
                 /\ daily_stats' = update_daily_stats(daily_stats, Date(ts), trade)
                 /\ positions' = RemoveAt(ps, Min(k, Len(ps)))
                 /\ last_trade_time' = ts
                 /\ UNCHANGED dropped

\* execute_sell(analysis, timestamp, reason, position_idx), backtest branch
\* ps is self.positions as the strategy's exit check left it
execute_sell(ps, md, ts, reason, k) ==
    IF ps = <<>> \/ k > Len(ps)
        THEN /\ positions' = ps
             /\ UNCHANGED <<trades, capital, daily_stats, last_trade_time, dropped>>
        ELSE LET trade == NewTrade(config, ps[k], md, ts, reason)
             IN  /\ capital' = capital + NetAmount(config, ps[k], md.current_price)
                 /\ trades' = Append(trades, trade)
                 /\ daily_stats' = update_daily_stats(daily_stats, Date(ts), trade)
                 /\ positions' = RemoveAt(ps, k)
                 /\ last_trade_time' = ts
                 /\ UNCHANGED dropped

\* A live sell that forgets the position when the order is rejected
execute_sell_live_forgetting(ps, md, ts, reason, k, coin, filled) ==
    IF ps = <<>> \/ k > Len(ps)
        THEN /\ positions' = ps
             /\ UNCHANGED <<trades, capital, daily_stats, last_trade_time, dropped>>
    ELSE IF coin # 0 /\ filled
        THEN /\ trades' = Append(trades, NewLiveTrade(ps[k], md, ts, reason, coin))
             /\ daily_stats' = update_daily_stats(daily_stats, Date(ts),
                                                  NewLiveTrade(ps[k], md, ts, reason, coin))
             /\ positions' = RemoveAt(ps, k)
             /\ last_trade_time' = ts
             /\ UNCHANGED <<capital, dropped>>
    ELSE /\ positions' = RemoveAt(ps, k)
         /\ dropped' = dropped + (IF coin = 0 THEN 1 ELSE 0)
         /\ UNCHANGED <<trades, capital, daily_stats, last_trade_time>>

\* execute_sell, live branch: coin is the balance api.get_position reports,
\* filled whether api.sell_market returned an order
execute_sell_live(ps, md, ts, reason, k, coin, filled) ==
    IF ps = <<>> \/ k > Len(ps)
        THEN /\ positions' = ps
             /\ UNCHANGED <<trades, capital, daily_stats, last_trade_time, dropped>>
    ELSE IF coin = 0
        THEN /\ positions' = RemoveAt(ps, k)
             /\ dropped' = dropped + 1
             /\ UNCHANGED <<trades, capital, daily_stats, last_trade_time>>
    ELSE IF filled
        THEN LET trade == NewLiveTrade(ps[k], md, ts, reason, coin)
             IN  /\ trades' = Append(trades, trade)
                 /\ daily_stats' = update_daily_stats(daily_stats, Date(ts), trade)
                 /\ positions' = RemoveAt(ps, k)
                 /\ last_trade_time' = ts
                 /\ UNCHANGED <<capital, dropped>>
    ELSE /\ positions' = ps
         /\ UNCHANGED <<trades, capital, daily_stats, last_trade_time, dropped>>

\* One iteration of `for i in range(len(self.positions) - 1, -1, -1)`
ExitStep ==
    /\ pc = "exit"
    /\ i >= 1
    /\ \E r \in {StrategyExit(grid, config, positions[i], analysis,
                                now - positions[i].entry_time)} :
       \E ps \in {[positions EXCEPT ![i] = r.position]} :
           IF ~r.sell
              THEN /\ positions' = ps
                   /\ UNCHANGED <<trades, capital, daily_stats, last_trade_time, dropped>>
           ELSE IF mode = "backtest"
              THEN execute_sell(ps, analysis, now, r.reason, i)
           ELSE \E coin \in CoinBalances, filled \in BOOLEAN :
                    execute_sell_live(ps, analysis, now, r.reason, i, coin, filled)
    /\ i' = i - 1
    /\ UNCHANGED <<returned, mode, config, strategy, pc, tick, now, enough, last_close, analysis, grid,
                   today_trade_count, current_date, is_running, buys>>

\* The reverse loop has run out
ExitDone ==
    /\ pc = "exit"
    /\ i = 0
    /\ pc' = PhaseAfter("exit")
    /\ i' = 0
    /\ analysis' = IF pc' = "idle" THEN NoAnalysis ELSE analysis
    /\ UNCHANGED <<returned, mode, config, strategy, tick, now, enough, last_close, positions, trades,
                   capital, grid, today_trade_count, last_trade_time, current_date,
                   daily_stats, is_running, buys, dropped>>

\* `if self.can_trade(timestamp)`: check_entry_conditions, then execute_buy.
\* In live mode krw is the KRW balance and filled whether api.buy_market
\* returned an order.  df is the price history the strategy is handed (NoDf:
\* none, as in `check_entry_conditions(analysis)`).
EntryStep(krw, filled, df) ==
    /\ pc = "entry"
    /\ current_date' = Date(now)
    /\ \E allowed \in {can_trade(config, now)} :
       \E e \in {StrategyEntry(grid, config, analysis, df)} :
       \E bought \in {allowed /\ e.ok /\ (mode = "backtest" \/ filled)} :
       \E position \in {IF mode = "backtest"
                            THEN NewPosition(config, e.grid, capital, e.md, now)
                            ELSE NewLivePosition(config, e.grid, krw, e.md, now)} :
           /\ grid' = IF allowed THEN e.grid ELSE grid
           /\ positions' = IF bought THEN Append(positions, position) ELSE positions
           /\ capital' = IF bought /\ mode = "backtest"
                            THEN capital - BuyAmount(config, capital) ELSE capital
           /\ today_trade_count' = CountAfterRoll(now) + (IF bought THEN 1 ELSE 0)
           /\ last_trade_time' = IF bought THEN now ELSE last_trade_time
           /\ buys' = buys + (IF bought THEN 1 ELSE 0)
    /\ pc' = PhaseAfter("entry")
    /\ i' = StartIndex(pc', positions')
    /\ analysis' = IF pc' = "idle" THEN NoAnalysis ELSE analysis
    /\ UNCHANGED <<returned, mode, config, strategy, tick, now, enough, last_close, trades,
                   daily_stats, is_running, dropped>>

\* run_backtest after the loop: with positions left, analyse the whole data
\* and sell them all at its last close
EndOfData ==
    /\ mode = "backtest"
    /\ pc = "idle"
    /\ tick >= 1
    /\ IF positions # <<>>
          THEN /\ pc' = "closing"
               /\ i' = Len(positions)
               /\ analysis' = [NoAnalysis EXCEPT !.current_price = last_close,
                                                 !.timestamp = now,
                                                 !.active_positions = Len(positions)]
          ELSE /\ pc' = "done"
               /\ i' = 0
               /\ analysis' = NoAnalysis
    /\ UNCHANGED <<returned, mode, config, strategy, tick, now, enough, last_close, positions, trades,
                   capital, grid, today_trade_count, last_trade_time, current_date,
                   daily_stats, is_running, buys, dropped>>

\* A closing loop that stops after its first sale
CloseFirstOnly ==
    /\ pc = "closing"
    /\ i >= 1
    /\ execute_sell(positions, analysis, now, "period_end", i)
    /\ i' = 0
    /\ pc' = "done"
    /\ analysis' = NoAnalysis
    /\ UNCHANGED <<returned, mode, config, strategy, tick, now, enough, last_close, grid,
                   today_trade_count, current_date, is_running, buys>>

\* One iteration of the closing loop: execute_sell(..., "period end", i)
CloseStep ==
    /\ pc = "closing"
    /\ i >= 1
    /\ execute_sell(positions, analysis, now, "period_end", i)
    /\ i' = i - 1
    /\ pc' = IF i = 1 THEN "done" ELSE "closing"
    /\ analysis' = IF i = 1 THEN NoAnalysis ELSE analysis
    /\ UNCHANGED <<returned, mode, config, strategy, tick, now, enough, last_close, grid,
                   today_trade_count, current_date, is_running, buys>>

\* A stop() that empties the open set
StopClosing ==
    /\ mode = "live"
    /\ is_running
    /\ is_running' = FALSE
    /\ pc' = "done"
    /\ i' = 0
    /\ analysis' = NoAnalysis
    /\ positions' = <<>>
    /\ UNCHANGED <<returned, mode, config, strategy, tick, now, enough, last_close, trades,
                   capital, grid, today_trade_count, last_trade_time, current_date,
                   daily_stats, buys, dropped>>

\* KeyboardInterrupt in run_live, then stop(): the loop ends; the positions
\* are reported and left as they are
Stop ==
    /\ mode = "live"
    /\ is_running
    /\ is_running' = FALSE
    /\ pc' = "done"
    /\ i' = 0
    /\ analysis' = NoAnalysis
    /\ UNCHANGED <<returned, mode, config, strategy, tick, now, enough, last_close, positions, trades,
                   capital, grid, today_trade_count, last_trade_time, current_date,
                   daily_stats, buys, dropped>>

Next ==
    \/ \E c \in Candles, hist \in BOOLEAN : BeginTick(c, hist)
    \/ \E c \in LiveCandles, fetch \in FetchOutcomes : LiveTick(c, fetch)
    \/ ExitStep
    \/ ExitDone
    \/ \E krw \in KrwBalances, filled \in BOOLEAN : EntryStep(krw, filled, NoDf)
    \/ EndOfData
    \/ CloseStep
    \/ Stop

Spec == Init /\ [][Next]_vars

(***************************************************************************)
(* The hybrid engine in the loop: the trader holds a HybridGridStrategy    *)
(* and hands it the price history at every entry evaluation.               *)
(***************************************************************************)
Reading(len, adx, slope, current_std, mean_std) ==
    [len |-> len, adx |-> adx, avg_ema_slope |-> slope,
     current_std |-> current_std, mean_std |-> mean_std]

Histories ==
    { Reading(10, 0, 0, 0, 0),        \* too short to classify
      Reading(60, 15, 0, 10, 10),     \* RANGE
      Reading(60, 22, 80, 20, 10),    \* NEUTRAL
      Reading(60, 30, 80, 20, 10),    \* TREND, spike, rising
      Reading(60, 30, -80, 20, 10),   \* TREND, spike, falling
      Reading(60, 30, 80, 10, 10),    \* TREND, no spike
      Reading(60, 30, 0, 20, 10) }    \* strong ADX, spike, flat slope: NEUTRAL

HybridCandles ==
    { Candle(p, 5, 10, NONE, NONE, 5) : p \in {9900, 10000, 10100} }
    \cup { Candle(9800, 20, 10, NONE, NONE, 5) }

InitHybrid == InitWith({"backtest"}, "HybridGridStrategy", HybridConfig)

NextHybrid ==
    \/ \E c \in HybridCandles, hist \in BOOLEAN : BeginTick(c, hist)
    \/ ExitStep
    \/ ExitDone
    \/ \E df \in Histories : EntryStep(0, TRUE, df)
    \/ EndOfData
    \/ CloseStep

SpecHybrid == InitHybrid /\ [][NextHybrid]_vars

(***************************************************************************)
(* The hybrid engine holding one breakout position, tagged with its        *)
(* sub-strategy and direction, bought at 10000 before the first tick.      *)
(***************************************************************************)
BreakoutPosition(direction) ==
    [ entry_time       |-> 0,
      entry_price      |-> 10000,
      amount           |-> 99950,
      fee              |-> 50,
      entry_grid_level |-> 0,
      sub_strategy     |-> "breakout",
      direction        |-> direction ]

BreakoutCandles ==
    { Candle(p, a, 200, p + 500, p - 500, 5) :
          p \in {9700, 9800, 10000, 10700, 10800, 11000}, a \in {0, 200} }

InitBreakout ==
    /\ mode = "backtest"
    /\ config = HybridConfig
    /\ strategy = "HybridGridStrategy"
    /\ pc = "idle"
    /\ i = 0
    /\ tick = 0
    /\ now = 0
    /\ enough = FALSE
    /\ last_close = 0
    /\ analysis = NoAnalysis
    /\ \E direction \in {"long", "short"} : positions = <<BreakoutPosition(direction)>>
    /\ trades = <<>>
    /\ capital = InitialCapital - 100000
    /\ grid = EmptyGrid
    /\ today_trade_count = 1
    /\ last_trade_time = 0
    /\ current_date = 0
    /\ daily_stats = <<>>
    /\ is_running = FALSE
    /\ buys = 1
    /\ dropped = 0
    /\ returned = NoCall

NextBreakout ==
    \/ \E c \in BreakoutCandles, hist \in BOOLEAN : BeginTick(c, hist)
    \/ ExitStep
    \/ ExitDone
    \/ EntryStep(0, TRUE, NoDf)
    \/ EndOfData
    \/ CloseStep

SpecBreakout == InitBreakout /\ [][NextBreakout]_vars

(***************************************************************************)
(* The loop under a configuration that turns the gates on: trading only    *)
(* in hour 0, one trade a day, ten minutes of cooldown.                    *)
(***************************************************************************)
GatedConfig ==
    [GridConfig EXCEPT !.use_time_filter = TRUE,
                       !.time_filter_mode = "custom",
                       !.allowed_hours = {0},
                       !.max_trades_per_day = 1,
                       !.cooldown_minutes = 10]

\* Ticks five and ten minutes apart, and a gap that ends five minutes before
\* midnight; the band is 1000 wide with the close 40 % up in it
GatedCandles ==
    { Candle(p, 5, 10, p + 600, p - 400, dt) :
          p \in {9800, 10000}, dt \in {5, 10, 1435} }

InitGated == InitWith({"backtest", "live"}, "GridTradingStrategy", GatedConfig)

NextGated ==
    \/ \E c \in GatedCandles, hist \in BOOLEAN : BeginTick(c, hist)
    \/ \E c \in GatedCandles, fetch \in FetchOutcomes : LiveTick(c, fetch)
    \/ ExitStep
    \/ ExitDone
    \/ \E krw \in KrwBalances, filled \in BOOLEAN : EntryStep(krw, filled, NoDf)
    \/ EndOfData
    \/ CloseStep
    \/ Stop

SpecGated == InitGated /\ [][NextGated]_vars

(***************************************************************************)
(* The trader and its strategy called from outside the loop: the loop      *)
(* runs as in Spec, and between its steps a caller invokes methods with    *)
(* arguments of its own choice.                                            *)
(***************************************************************************)
\* The value execute_sell returns; k is position_idx + 1
execute_sell_returns(ps, k, coin, filled) ==
    IF ps = <<>> \/ k > Len(ps) THEN FALSE
    ELSE IF mode = "backtest" THEN TRUE
    ELSE coin # 0 /\ filled

\* execute_sell(analysis, timestamp, reason, position_idx) called with an
\* index of the caller's choice, position_idx = k - 1
SellCall(k, coin, filled) ==
    /\ pc = "entry"
    /\ IF mode = "backtest"
          THEN execute_sell(positions, analysis, now, "manual", k)
          ELSE execute_sell_live(positions, analysis, now, "manual", k, coin, filled)
    /\ returned' = [call |-> "execute_sell", args |-> <<k>>,
                    result |-> <<execute_sell_returns(positions, k, coin, filled)>>]
    /\ UNCHANGED <<mode, config, strategy, pc, i, tick, now, enough, last_close,
                   analysis, grid, today_trade_count, current_date, is_running, buys>>

\* market_data dicts a caller may hand to the Bollinger filter: a 4 % band,
\* upper = lower, upper < lower, a band that is None, a key that is absent
Snapshots ==
    { [current_price |-> p, bb_upper |-> b[1], bb_lower |-> b[2]] :
          p \in {10000, 10300},
          b \in {<<10200, 9800>>, <<10000, 10000>>, <<9800, 10200>>,
                 <<NONE, 9800>>, <<10200, NONE>>} }
    \cup { [current_price |-> 10300, bb_upper |-> 10200],
           [current_price |-> 10300, bb_lower |-> 9800],
           [current_price |-> 10300] }

\* check_bb_entry_condition(market_data) called on a dict of the caller's
BBCall(md) ==
    /\ pc = "idle"
    /\ returned' = [call |-> "check_bb_entry_condition", args |-> <<md>>,
                    result |-> <<check_bb_entry_condition(config, md)>>]
    /\ UNCHANGED <<mode, config, strategy, pc, i, tick, now, enough, last_close,
                   analysis, positions, trades, capital, grid, today_trade_count,
                   last_trade_time, current_date, daily_stats, is_running, buys,
                   dropped>>

\* Prices a caller may ask about: off the levels, and half-way between two
NearestPrices == {9850, 9950, 10000}

\* A query that takes the level it returns off the grid
NearestCallConsuming(price) ==
    /\ pc = "idle"
    /\ returned' = [call |-> "get_nearest_grid_level", args |-> <<price, grid>>,
                    result |-> <<get_nearest_grid_level(grid, price).idx,
                                 get_nearest_grid_level(grid, price).level>>]
    /\ grid' = IF grid.grid_prices = <<>> THEN grid
               ELSE [grid EXCEPT !.grid_prices =
                        RemoveAt(@, get_nearest_grid_level(grid, price).idx)]
    /\ UNCHANGED <<mode, config, strategy, pc, i, tick, now, enough, last_close,
                   analysis, positions, trades, capital, today_trade_count,
                   last_trade_time, current_date, daily_stats, is_running, buys,
                   dropped>>

\* get_nearest_grid_level(price) called with a price of the caller's; the
\* method reads self.grid_prices and assigns nothing
NearestCall(price) ==
    /\ pc = "idle"
    /\ returned' = [call |-> "get_nearest_grid_level", args |-> <<price, grid>>,
                    result |-> <<get_nearest_grid_level(grid, price).idx,
                                 get_nearest_grid_level(grid, price).level>>]
    /\ UNCHANGED <<mode, config, strategy, pc, i, tick, now, enough, last_close,
                   analysis, positions, trades, capital, grid, today_trade_count,
                   last_trade_time, current_date, daily_stats, is_running, buys,
                   dropped>>

CallCandles ==
    { Candle(p, 5, 10, 10200, 9800, 5) : p \in {9850, 10000} }

InitCalls == InitWith({"backtest", "live"}, "GridTradingStrategy", GridConfig)

NextCalls ==
    \/ \E c \in CallCandles, hist \in BOOLEAN : BeginTick(c, hist)
    \/ \E c \in CallCandles, fetch \in FetchOutcomes : LiveTick(c, fetch)
    \/ ExitStep
    \/ ExitDone
    \/ \E krw \in KrwBalances, filled \in BOOLEAN : EntryStep(krw, filled, NoDf)
    \/ EndOfData
    \/ CloseStep
    \/ Stop
    \/ \E k \in 1..(MaxPositions + 1), coin \in CoinBalances, filled \in BOOLEAN :
          SellCall(k, coin, filled)
    \/ \E md \in Snapshots : BBCall(md)
    \/ \E price \in NearestPrices : NearestCall(price)

SpecCalls == InitCalls /\ [][NextCalls]_vars

(***************************************************************************)
(* The backtest of the grid-trading preset over a flat series: every       *)
(* candle closes at the same price with high = low, so the ATR and its     *)
(* mean are 0 and both Bollinger bands sit on the price.                   *)
(***************************************************************************)
\* get_grid_trading_config(); trade_amount is the trader's default, 80 % of
\* the initial capital
PresetConfig ==
    [GridConfig EXCEPT !.data_length = FlatTicks,
                       !.trade_amount = (InitialCapital * 80) \div 100,
                       !.grid_levels = 5,
                       !.grid_spacing = 70,
                       !.max_positions = 3,
                       !.max_atr_threshold = 80,
                       !.single_position_stop_loss = -50,
                       !.single_grid_profit = 70,
                       !.total_stop_loss = 0,
                       !.long_hold_minutes = 0,
                       !.long_hold_loss_threshold = -100,
                       !.fee_rate = 5,
                       !.grid_reset_hours = 1,
                       !.bb_width_change_threshold = 30,
                       !.use_bb_entry_filter = TRUE,
                       !.bb_entry_position_max = 20,
                       !.bb_width_multiplier_narrow = 100,
                       !.bb_width_multiplier_wide = 150,
                       !.cooldown_minutes = 3,
                       !.max_trades_per_day = NONE]

FlatPrice == 1000

FlatCandles == { Candle(FlatPrice, 0, 0, FlatPrice, FlatPrice, 5) }

InitFlat == InitWith({"backtest"}, "GridTradingStrategy", PresetConfig)

NextFlat ==
    \/ \E c \in FlatCandles, hist \in BOOLEAN : BeginTick(c, hist)
    \/ ExitStep
    \/ ExitDone
    \/ EntryStep(0, TRUE, NoDf)
    \/ EndOfData
    \/ CloseStep

SpecFlat == InitFlat /\ [][NextFlat]_vars

(***************************************************************************)
(* Startup: main() loads the configuration of a preset by name and         *)
(* constructs the trader, whose constructor builds the strategy; a caller  *)
(* may also hand the constructor a config dict of its own.                 *)
(***************************************************************************)
\* PRESETS of config.py; the hybrid preset by its strategy attributes
PRESETS ==
    ("hybrid-grid" :> HybridConfig)
        @@ ("grid-trading" :> [PresetConfig EXCEPT !.data_length = MaxTicks])

\* Names a user may type, two of which are not in PRESETS
PresetNames == {"hybrid-grid", "grid-trading", "scalping", ""}

\* Config dicts handed to the constructor without get_config
DirectConfigs ==
    { [PRESETS["grid-trading"] EXCEPT !.strategy_type = t] :
          t \in {"grid_trading", "scalping", "momentum_breakout"} }

\* get_config(preset): an unknown name is answered with the hybrid preset
get_config(preset) ==
    IF preset \notin DOMAIN PRESETS THEN PRESETS["hybrid-grid"]
    ELSE PRESETS[preset]

\* keys of strategy_map in create_strategy
strategy_map == {"grid_trading"}

\* create_strategy(config): the class it instantiates, or the error it raises
create_strategy(cfg) ==
    IF cfg.strategy_type \notin strategy_map THEN "ValueError"
    ELSE "GridTradingStrategy"

StartupCandles ==
    { Candle(p, 5, 10, 1060, 990, 5) : p \in {993, 1000, 1007} }

\* Before the trader exists: nothing loaded, or a caller's own config in hand
InitStartup ==
    /\ mode = "backtest"
    /\ \/ pc = "start" /\ config = [strategy_type |-> ""]
       \/ pc = "loaded" /\ config \in DirectConfigs
    /\ strategy = ""
    /\ i = 0
    /\ tick = 0
    /\ now = 0
    /\ enough = FALSE
    /\ last_close = 0
    /\ analysis = NoAnalysis
    /\ positions = <<>>
    /\ trades = <<>>
    /\ capital = 0
    /\ grid = EmptyGrid
    /\ today_trade_count = 0
    /\ last_trade_time = NONE
    /\ current_date = NONE
    /\ daily_stats = <<>>
    /\ is_running = FALSE
    /\ buys = 0
    /\ dropped = 0
    /\ returned = NoCall

\* main(): config = get_config(args.preset)
LoadConfig(preset) ==
    /\ pc = "start"
    /\ config' = get_config(preset)
    /\ returned' = [call |-> "get_config", args |-> <<preset>>, result |-> <<>>]
    /\ pc' = "loaded"
    /\ UNCHANGED <<mode, strategy, i, tick, now, enough, last_close, analysis,
                   positions, trades, capital, grid, today_trade_count,
                   last_trade_time, current_date, daily_stats, is_running, buys,
                   dropped>>

\* UnifiedTrader(config, market, mode): create_strategy raises before any
\* other field is set, or the trader is built with its starting capital
Construct ==
    /\ pc = "loaded"
    /\ strategy' = create_strategy(config)
    /\ IF strategy' = "ValueError"
          THEN pc' = "rejected" /\ capital' = capital
          ELSE pc' = "idle" /\ capital' = InitialCapital
    /\ UNCHANGED <<returned, mode, config, i, tick, now, enough, last_close,
                   analysis, positions, trades, grid, today_trade_count,
                   last_trade_time, current_date, daily_stats, is_running, buys,
                   dropped>>

NextStartup ==
    \/ \E preset \in PresetNames : LoadConfig(preset)
    \/ Construct
    \/ \E c \in StartupCandles, hist \in BOOLEAN : BeginTick(c, hist)
    \/ ExitStep
    \/ ExitDone
    \/ EntryStep(0, TRUE, NoDf)
    \/ EndOfData
    \/ CloseStep

SpecStartup == InitStartup /\ [][NextStartup]_vars

(***************************************************************************)
(* The market-mode classifier called on readings of a caller's choice.     *)
(***************************************************************************)
\* ADX readings around the thresholds 20 and 25
ADXValues == {0, 10, 19, 20, 21, 24, 25, 26, 30, 40}

\* averaged EMA slopes in bp around the threshold of 0.5 %
SlopeValues == {-100, -80, -51, -50, -49, 0, 49, 50, 51, 80, 100}

\* determine_market_mode(market_data, df) on a history whose ADX and averaged
\* EMA slope are adx and slope; the method assigns to no attribute
ModeCall(adx, slope) ==
    /\ returned' = [call |-> "determine_market_mode", args |-> <<adx, slope>>,
                    result |-> <<determine_market_mode(config, Reading(60, adx, slope, 0, 0))>>]
    /\ UNCHANGED <<mode, config, strategy, pc, i, tick, now, enough, last_close,
                   analysis, positions, trades, capital, grid, today_trade_count,
                   last_trade_time, current_date, daily_stats, is_running, buys,
                   dropped>>

NextModes == \E adx \in ADXValues, slope \in SlopeValues : ModeCall(adx, slope)

SpecModes == InitHybrid /\ [][NextModes]_vars

(***************************************************************************)
(* The grid exit check called on a position and a market snapshot of a     *)
(* caller's choice, against the ladder laid around 10000.                  *)
(***************************************************************************)
\* total_stop_loss and long_hold_minutes on and off, take-profit at 1 % and 2 %
ExitConfigs ==
    { [GridConfig EXCEPT !.total_stop_loss = t, !.long_hold_minutes = h,
                         !.single_grid_profit = sgp] :
          t \in {0, -100}, h \in {0, 30}, sgp \in {100, 200} }

\* a position bought at 10000: untied to a level, at the middle level, at the top
ExitPositions ==
    { [entry_time |-> 0, entry_price |-> 10000, amount |-> 99950, fee |-> 50,
       entry_grid_level |-> l] : l \in {0, 3, 5} }

ExitPrices == {9840, 9850, 9900, 9960, 9970, 10000, 10049, 10050, 10051, 10100, 10110}

\* market_data with and without a total_profit_rate key
ExitSnapshots ==
    LET base == { [NoAnalysis EXCEPT !.current_price = p, !.atr = a, !.atr_ma = ma] :
                      p \in ExitPrices, a \in {5, 15, 16}, ma \in {0, 10} }
    IN  base \cup { ("total_profit_rate" :> t) @@ md : t \in {-100, -50}, md \in base }

InitExits ==
    /\ mode = "backtest"
    /\ config \in ExitConfigs
    /\ strategy = "GridTradingStrategy"
    /\ pc = "idle"
    /\ i = 0
    /\ tick = 0
    /\ now = 0
    /\ enough = FALSE
    /\ last_close = 0
    /\ analysis = NoAnalysis
    /\ positions = <<>>
    /\ trades = <<>>
    /\ capital = InitialCapital
    /\ grid = initialize_grid(EmptyGrid, config, 10000, 0)
    /\ today_trade_count = 0
    /\ last_trade_time = NONE
    /\ current_date = NONE
    /\ daily_stats = <<>>
    /\ is_running = FALSE
    /\ buys = 0
    /\ dropped = 0
    /\ returned = NoCall

\* check_exit_conditions(position, market_data, holding_minutes), called once
ExitCall(position, md, holding_minutes) ==
    /\ pc = "idle"
    /\ returned = NoCall
    /\ \E v \in {check_exit_conditions(grid, config, position, md, holding_minutes)} :
          returned' = [call |-> "check_exit_conditions",
                       args |-> <<position, md, holding_minutes>>,
                       result |-> <<v.sell, v.kind, v.reason>>]
    /\ UNCHANGED <<mode, config, strategy, pc, i, tick, now, enough, last_close,
                   analysis, positions, trades, capital, grid, today_trade_count,
                   last_trade_time, current_date, daily_stats, is_running, buys,
                   dropped>>

NextExits ==
    \E position \in ExitPositions, md \in ExitSnapshots, holding_minutes \in {0, 30} :
        ExitCall(position, md, holding_minutes)

SpecExits == InitExits /\ [][NextExits]_vars

(***************************************************************************)
(* initialize_grid called on a strategy configured with a level count and  *)
(* a spacing of the caller's choice.                                       *)
(***************************************************************************)
LadderConfigs ==
    { [GridConfig EXCEPT !.grid_levels = n, !.grid_spacing = sp] :
          n \in 1..6, sp \in {50, 100} }

LadderPrices == {1000, 5000, 9800, 9900, 10000, 10100, 12000, 20000, 50000}

InitLadder ==
    /\ mode = "backtest"
    /\ config \in LadderConfigs
    /\ strategy = "GridTradingStrategy"
    /\ pc = "idle"
    /\ i = 0
    /\ tick = 0
    /\ now = 0
    /\ enough = FALSE
    /\ last_close = 0
    /\ analysis = NoAnalysis
    /\ positions = <<>>
    /\ trades = <<>>
    /\ capital = InitialCapital
    /\ grid = EmptyGrid
    /\ today_trade_count = 0
    /\ last_trade_time = NONE
    /\ current_date = NONE
    /\ daily_stats = <<>>
    /\ is_running = FALSE
    /\ buys = 0
    /\ dropped = 0
    /\ returned = NoCall

\* initialize_grid(current_price, timestamp), called once
InitializeCall(current_price, timestamp) ==
    /\ pc = "idle"
    /\ returned = NoCall
    /\ grid' = initialize_grid(grid, config, current_price, timestamp)
    /\ returned' = [call |-> "initialize_grid", args |-> <<current_price, timestamp>>,
                    result |-> <<>>]
    /\ UNCHANGED <<mode, config, strategy, pc, i, tick, now, enough, last_close,
                   analysis, positions, trades, capital, today_trade_count,
                   last_trade_time, current_date, daily_stats, is_running, buys,
                   dropped>>

NextLadder == \E current_price \in LadderPrices : InitializeCall(current_price, 5)

SpecLadder == InitLadder /\ [][NextLadder]_vars

(***************************************************************************)
(* The breakout entry check called with a mode and indicator readings of a *)
(* caller's choice, breakout switched on and off.                          *)
(***************************************************************************)
BreakoutEntryConfigs == { [HybridConfig EXCEPT !.breakout_enabled = b] : b \in BOOLEAN }

\* readings around the slope threshold of 0.5 % and the spike multiple 1.5
BreakoutReadings ==
    { Reading(60, 30, slope, current_std, mean_std) :
          slope \in {-80, -51, -50, 0, 50, 51, 80},
          current_std \in {10, 15, 16, 20},
          mean_std \in {0, 10} }

InitBreakoutEntry ==
    /\ mode = "backtest"
    /\ config \in BreakoutEntryConfigs
    /\ strategy = "HybridGridStrategy"
    /\ pc = "idle"
    /\ i = 0
    /\ tick = 0
    /\ now = 0
    /\ enough = FALSE
    /\ last_close = 0
    /\ analysis = NoAnalysis
    /\ positions = <<>>
    /\ trades = <<>>
    /\ capital = InitialCapital
    /\ grid = EmptyGrid
    /\ today_trade_count = 0
    /\ last_trade_time = NONE
    /\ current_date = NONE
    /\ daily_stats = <<>>
    /\ is_running = FALSE
    /\ buys = 0
    /\ dropped = 0
    /\ returned = NoCall

\* check_breakout_entry(market_data, df, mode), called once
BreakoutEntryCall(df, market_mode) ==
    /\ pc = "idle"
    /\ returned = NoCall
    /\ \E v \in {check_breakout_entry(config, analysis, df, market_mode)} :
          returned' = [call |-> "check_breakout_entry", args |-> <<df, market_mode>>,
                       result |-> <<v.ok, v.direction, v.reason>>]
    /\ UNCHANGED <<mode, config, strategy, pc, i, tick, now, enough, last_close,
                   analysis, positions, trades, capital, grid, today_trade_count,
                   last_trade_time, current_date, daily_stats, is_running, buys,
                   dropped>>

NextBreakoutEntry ==
    \E df \in BreakoutReadings, market_mode \in {"TREND", "RANGE", "NEUTRAL"} :
        BreakoutEntryCall(df, market_mode)

SpecBreakoutEntry == InitBreakoutEntry /\ [][NextBreakoutEntry]_vars

(***************************************************************************)
(* A backtest whose configured trade_amount exceeds the capital: two       *)
(* positions of 900,000 each are asked for out of 1,000,000.               *)
(***************************************************************************)
ScarceConfig == [GridConfig EXCEPT !.trade_amount = 1800000, !.max_positions = 2]

ScarceCandles == { Candle(p, 5, 10, NONE, NONE, 5) : p \in {980, 990, 1000, 1010} }

InitScarce == InitWith({"backtest"}, "GridTradingStrategy", ScarceConfig)

NextScarce ==
    \/ \E c \in ScarceCandles, hist \in BOOLEAN : BeginTick(c, hist)
    \/ ExitStep
    \/ ExitDone
    \/ EntryStep(0, TRUE, NoDf)
    \/ EndOfData
    \/ CloseStep

SpecScarce == InitScarce /\ [][NextScarce]_vars

(***************************************************************************)
(* Properties                                                             *)
(***************************************************************************)

C2_ExitBeforeEntry ==
    /\ pc = "exit" => \A k \in 1..Len(positions) : positions[k].entry_time < now
    /\ \A k \in 1..Len(trades) :
          trades[k].reason # "period_end" => trades[k].entry_time < trades[k].timestamp

\* A tick that closed a position in its exit phase and then opened one in its
\* entry phase; the new position is open at the end of the tick.
C2_Witness ==
    /\ pc = "idle"
    /\ trades # <<>> /\ trades[Len(trades)].timestamp = now
    /\ positions # <<>> /\ positions[Len(positions)].entry_time = now

\* C3: at data exhaustion in a backtest the n positions still open are turned
\* into exactly n further trades, each with the period-end reason at the last
\* close, and none is open when the run is done.
C3_ForcedClosure ==
    /\ [](mode = "backtest" /\ pc = "done" => positions = <<>>)
    /\ [](pc = "closing" => i = Len(positions) /\ i >= 1)
    /\ [][mode = "backtest" /\ pc = "idle" /\ pc' # "idle" /\ tick' = tick
             => /\ trades' = trades /\ positions' = positions
                /\ pc' = (IF positions = <<>> THEN "done" ELSE "closing")]_vars
    /\ [][pc = "closing"
             => /\ Len(trades') = Len(trades) + 1
                /\ SubSeq(trades', 1, Len(trades)) = trades
                /\ trades'[Len(trades')].reason = "period_end"
                /\ trades'[Len(trades')].exit_price = last_close
                /\ trades'[Len(trades')].timestamp = now
                /\ Len(positions') = Len(positions) - 1]_vars

\* A finished backtest whose closing loop sold two positions
C3_Witness ==
    /\ mode = "backtest" /\ pc = "done" /\ positions = <<>>
    /\ Len(trades) >= 2
    /\ trades[Len(trades)].reason = "period_end"
    /\ trades[Len(trades) - 1].reason = "period_end"

C5_StrictlyLater ==
    \A k \in 1..Len(trades) :
        /\ trades[k].entry_time < trades[k].timestamp
        /\ trades[k].holding_time = trades[k].timestamp - trades[k].entry_time

\* C5 (amended): every trade's entry_time is at or before its exit timestamp,
\* equal only for the forced end-of-run closure of a position opened at the
\* final tick, and its holding_time is their difference in minutes.
C5_NotEarlier ==
    \A k \in 1..Len(trades) :
        /\ trades[k].entry_time <= trades[k].timestamp
        /\ trades[k].entry_time = trades[k].timestamp => trades[k].reason = "period_end"
        /\ trades[k].holding_time = trades[k].timestamp - trades[k].entry_time

\* The forced closure of a position opened at the final tick
C5_Witness ==
    \E k \in 1..Len(trades) :
        /\ trades[k].reason = "period_end"
        /\ trades[k].entry_time = trades[k].timestamp
        /\ trades[k].holding_time = 0

\* C6 (as stated): in backtest and live, the number of successful buys equals
\* the number of open positions plus the number of trades.
C6_BuysAreOpenOrTraded == buys = Len(positions) + Len(trades)

\* C6 (amended): a position leaves the open set by becoming exactly one trade
\* or, in live mode, by being removed without a trade when the exchange
\* reports a zero balance at the sell; every buy is open, traded or so
\* removed, and a backtest removes none without a trade.
C6_BuysAreOpenTradedOrDropped ==
    /\ [](buys = Len(positions) + Len(trades) + dropped)
    /\ [](mode = "backtest" => dropped = 0)
    /\ [][Len(positions') < Len(positions)
             => /\ Len(positions') = Len(positions) - 1
                /\ \/ Len(trades') = Len(trades) + 1 /\ dropped' = dropped
                   \/ trades' = trades /\ dropped' = dropped + 1 /\ mode = "live"]_vars

\* A live session that removed one position without a trade and sold another
C6_Witness == mode = "live" /\ dropped >= 1 /\ trades # <<>>

\* C7: backtest accounting.  A buy debits the pre-fee amount and books
\* fee = amount x fee_rate; a sell credits net_amount = quantity x exit price
\* less the sell fee; the trade's profit is net_amount less the amount the
\* buy debited.
C7_Accounting ==
    /\ [][mode = "backtest" /\ Len(positions') > Len(positions)
             => /\ positions'[Len(positions')].fee =
                       ((capital - capital') * config.fee_rate) \div 10000
                /\ positions'[Len(positions')].amount =
                       (capital - capital') - positions'[Len(positions')].fee]_vars
    /\ [][mode = "backtest" /\ Len(trades') > Len(trades)
             => /\ capital' - capital =
                       (positions[i].amount * analysis.current_price) \div positions[i].entry_price
                       - (((positions[i].amount * analysis.current_price)
                              \div positions[i].entry_price) * config.fee_rate) \div 10000
                /\ trades'[Len(trades')].profit =
                       (capital' - capital) - (positions[i].amount + positions[i].fee)]_vars

\* C8: where a grid exists its levels are strictly increasing and the level
\* at the middle index (len // 2) is the base price of the last
\* initialization.
C8_GridCentred ==
    grid.grid_prices # <<>> =>
        /\ \A k \in 1..(Len(grid.grid_prices) - 1) :
              grid.grid_prices[k] < grid.grid_prices[k + 1]
        /\ grid.grid_prices[(Len(grid.grid_prices) \div 2) + 1] = grid.base_price

\* A grid re-initialized around a new price after an hour's gap
C8_Witness ==
    /\ Len(grid.grid_prices) = 5
    /\ grid.base_price = 12000
    /\ grid.grid_initialized_at >= 60

\* C9: whenever the levels, the base price or the initialization time change,
\* all three become those of initialize_grid at the current price and time;
\* this happens only in the entry evaluation.
C9_WholesaleReset ==
    [][<<grid.grid_prices, grid.base_price, grid.grid_initialized_at>>'
           # <<grid.grid_prices, grid.base_price, grid.grid_initialized_at>>
         => /\ pc = "entry"
            /\ grid'.base_price = analysis.current_price
            /\ grid'.grid_initialized_at = now
            /\ Len(grid'.grid_prices) = 2 * (config.grid_levels \div 2) + 1
            /\ \A k \in 1..Len(grid'.grid_prices) :
                  grid'.grid_prices[k] =
                      (analysis.current_price
                          * (10000 + (k - 1 - config.grid_levels \div 2) * config.grid_spacing))
                      \div 10000]_vars

\* A grid re-initialized at a tick later than the buy of a position still
\* open, around a price other than that position's
C9_Witness ==
    /\ pc = "idle"
    /\ grid.grid_initialized_at = now
    /\ \E k \in 1..Len(positions) :
          /\ positions[k].entry_time < now
          /\ positions[k].entry_price # grid.base_price

\* The value at a price, and the cost, of a list of positions
RECURSIVE ValueAt(_, _)
ValueAt(ps, price) ==
    IF ps = <<>> THEN 0
    ELSE (Head(ps).amount * price) \div Head(ps).entry_price + ValueAt(Tail(ps), price)

RECURSIVE CostOf(_)
CostOf(ps) == IF ps = <<>> THEN 0 ELSE Head(ps).amount + CostOf(Tail(ps))

\* C10: with total_stop_loss nonzero, a tick at which the aggregate profit
\* rate of the open positions is at or below total_stop_loss while each
\* position is above its own stop-loss closes the positions: the exit phase
\* of such a tick does not end with all of them still open.
C10_PortfolioStopFirst ==
    ~ /\ mode = "backtest" /\ pc = "exit" /\ i = 0
      /\ config.total_stop_loss # 0
      /\ Len(positions) >= 2
      /\ Len(positions) = analysis.active_positions
      /\ \A k \in 1..Len(positions) :
            ~RateLE(analysis.current_price, positions[k].entry_price,
                    config.single_position_stop_loss)
      /\ (ValueAt(positions, analysis.current_price) - CostOf(positions)) * 10000
            <= config.total_stop_loss * CostOf(positions)

\* C11: for a long breakout position the stored peak is the running maximum
\* of the entry price and the prices its exit checks have seen; with ATR > 0
\* the trailing exit fires at a check exactly when the price is at or below
\* peak - ATR x long multiple, and never at a check whose price sets a new
\* peak.
C11_TrailingPeak ==
    /\ [](\A k \in 1..Len(positions) :
             MdGet(positions[k], "highest_price", positions[k].entry_price)
                 >= positions[k].entry_price)
    /\ [][(/\ pc = "exit" /\ i >= 1 /\ i' = i - 1
           /\ MdGet(positions[i], "sub_strategy", "grid") = "breakout"
           /\ MdGet(positions[i], "direction", "long") = "long")
          => \E old \in {MdGet(positions[i], "highest_price", positions[i].entry_price)} :
             \E peak \in {IF analysis.current_price > old
                             THEN analysis.current_price ELSE old} :
             \E trailed \in {/\ Len(trades') = Len(trades) + 1
                             /\ trades'[Len(trades')].reason = "long_trailing_stop"} :
                /\ Len(positions') = Len(positions)
                      => MdGet(positions'[i], "highest_price",
                               positions'[i].entry_price) = peak
                /\ analysis.atr > 0
                      => (trailed <=>
                            analysis.current_price * 10
                               <= peak * 10
                                    - analysis.atr * config.trailing_stop_atr_multiple_long)
                /\ analysis.current_price > old /\ analysis.atr > 0 => ~trailed]_vars

\* The long position bought at 10000 saw a peak of at least 11000 and was
\* sold by the trailing stop at 10700 = 11000 - 200 x 1.5
C11_Witness ==
    /\ trades # <<>>
    /\ trades[1].reason = "long_trailing_stop"
    /\ trades[1].entry_price = 10000
    /\ trades[1].exit_price = 10700

\* C12: every open position carries the sub_strategy tag (grid or breakout)
\* of the sub-strategy that accepted its entry and, when the tag is breakout,
\* the accepted direction (long or short).
C12_PositionsTagged ==
    \A k \in 1..Len(positions) :
        /\ "sub_strategy" \in DOMAIN positions[k]
        /\ positions[k].sub_strategy \in {"grid", "breakout"}
        /\ positions[k].sub_strategy = "breakout"
              => /\ "direction" \in DOMAIN positions[k]
                 /\ positions[k].direction \in {"long", "short"}

\* C13: a tick whose timestamp falls outside the trading-hours filter is
\* skipped entirely, in backtest and in live: neither the exit phase nor the
\* entry phase starts, and positions, trades, capital, the daily trade count,
\* the last trade time and the grid are unchanged by it.
C13_OutsideHoursSkipped ==
    [][(pc = "idle" /\ tick' = tick + 1 /\ ~is_trading_hours(config, now'))
          => /\ pc' \notin {"exit", "entry"}
             /\ UNCHANGED <<positions, trades, capital, today_trade_count,
                            last_trade_time, grid>>]_vars

\* The positions opened on calendar date d that the ledger still records
OpenedOn(d) ==
    Cardinality({k \in 1..Len(positions) : Date(positions[k].entry_time) = d})
      + Cardinality({k \in 1..Len(trades) : Date(trades[k].entry_time) = d})

\* C14: with max_trades_per_day configured, the positions opened on one
\* calendar date never exceed it; the daily counter changes only in the entry
\* phase, where it restarts from zero exactly when the tick's date differs
\* from the stored date and grows by one with each buy.
C14_DailyCap ==
    /\ [](config.max_trades_per_day # NONE
            => /\ today_trade_count <= config.max_trades_per_day
               /\ \A d \in 0..Date(now) : OpenedOn(d) <= config.max_trades_per_day)
    /\ [][today_trade_count' # today_trade_count \/ buys' # buys
            => /\ pc = "entry"
               /\ today_trade_count'
                    = (IF current_date # Date(now) THEN 0 ELSE today_trade_count)
                        + (buys' - buys)]_vars

\* Two buys on two dates with one trade allowed per day: the counter was
\* reset in between and is at its cap again
C14_Witness ==
    /\ config.max_trades_per_day = 1
    /\ buys = 2
    /\ today_trade_count = 1
    /\ OpenedOn(0) = 1
    /\ OpenedOn(1) = 1

\* C15: a position is opened only at a tick at least cooldown_minutes after
\* every earlier buy and every earlier sell; with a positive cooldown, never
\* in the tick in which a position was closed.
C15_Cooldown ==
    [][buys' = buys + 1
         => /\ \A k \in 1..Len(positions) :
                  now - positions[k].entry_time >= config.cooldown_minutes
            /\ \A k \in 1..Len(trades) :
                  /\ now - trades[k].entry_time >= config.cooldown_minutes
                  /\ now - trades[k].timestamp >= config.cooldown_minutes]_vars

\* A position opened a cooldown or more after the last sell
C15_Witness ==
    /\ config.cooldown_minutes > 0
    /\ trades # <<>>
    /\ positions # <<>>
    /\ positions[Len(positions)].entry_time
          >= trades[Len(trades)].timestamp + config.cooldown_minutes

\* C16: execute_sell called with an index that is not in the open set (the
\* ledger is empty, or position_idx >= len(positions)) returns False and
\* leaves positions, trades, capital, daily stats and the last trade time
\* unchanged, and the loop goes on from where it was.
C16_BadIndexIsNoOp ==
    [][(/\ returned'.call = "execute_sell"
        /\ pc = "entry" /\ pc' = "entry"
        /\ (positions = <<>> \/ returned'.args[1] > Len(positions)))
          => /\ returned'.result[1] = FALSE
             /\ UNCHANGED <<positions, trades, capital, daily_stats, last_trade_time>>
             /\ is_running' = is_running]_vars

\* execute_sell was called with an index past the end of a ledger that holds
\* a position, and the position is still there
C16_Witness ==
    /\ returned.call = "execute_sell"
    /\ returned.args[1] = Len(positions) + 1
    /\ returned.result[1] = FALSE
    /\ positions # <<>>
    /\ Len(trades) + Len(positions) + dropped = buys

\* C17: in live mode a tick whose market-data fetch fails is abandoned: no
\* exit or entry phase starts, positions, trades, capital and the other
\* ledger fields are unchanged, and the loop stays running, idle until the
\* next tick; the loop ends only by an explicit stop, never within a tick.
C17_FailedFetchAbandoned ==
    /\ [][(mode = "live" /\ tick' = tick + 1 /\ analysis' = NoAnalysis)
            => /\ pc' = "idle"
               /\ is_running'
               /\ UNCHANGED <<positions, trades, capital, daily_stats, grid,
                              today_trade_count, last_trade_time>>]_vars
    /\ [][(is_running /\ ~is_running') => tick' = tick]_vars

\* The snapshot has no usable band: a band is missing, or upper <= lower
Degenerate(md) ==
    \/ "bb_upper" \notin DOMAIN md
    \/ "bb_lower" \notin DOMAIN md
    \/ md.bb_upper = NONE
    \/ md.bb_lower = NONE
    \/ md.bb_upper <= md.bb_lower

\* C18: the Bollinger entry filter permits the entry for every snapshot in
\* which bb_upper <= bb_lower or a band is missing, whatever the price.
C18_DegenerateBandPermits ==
    returned.call = "check_bb_entry_condition" /\ Degenerate(returned.args[1])
        => returned.result[1] = TRUE

\* The filter was called with the price above an inverted band and let it in
C18_Witness ==
    /\ returned.call = "check_bb_entry_condition"
    /\ config.use_bb_entry_filter
    /\ "bb_upper" \in DOMAIN returned.args[1]
    /\ "bb_lower" \in DOMAIN returned.args[1]
    /\ returned.args[1].bb_upper = 9800
    /\ returned.args[1].bb_lower = 10200
    /\ returned.args[1].current_price = 10300
    /\ returned.result[1] = TRUE

C23_ClassifierTotal ==
    /\ [](returned.call = "determine_market_mode"
            => \E adx \in {returned.args[1]} : \E slope \in {returned.args[2]} :
               \E m \in {returned.result[1]} :
               \E trending \in {/\ adx > config.adx_trend_threshold
                                /\ (slope > config.ema_slope_threshold
                                      \/ -slope > config.ema_slope_threshold)} :
                  /\ m \in {"TREND", "RANGE", "NEUTRAL"}
                  /\ m = "TREND" <=> trending
                  /\ m = "RANGE" <=> ~trending /\ adx < config.adx_range_threshold
                  /\ m = "NEUTRAL" <=> ~trending /\ adx >= config.adx_range_threshold)
    /\ [][returned'.call = "determine_market_mode"
            => UNCHANGED <<grid, positions, trades, capital, config, strategy>>]_vars

\* ADX exactly on the trend threshold with a steep slope: not TREND
C23_Witness ==
    /\ returned.call = "determine_market_mode"
    /\ returned.args = <<25, 80>>
    /\ returned.result = <<"NEUTRAL">>

\* What the claim's routing gives for history df at the current tick: in
\* TREND the breakout check's answer and the grid as it is, otherwise the
\* grid check's answer and the grid it leaves.
RoutedEntry(df) ==
    IF determine_market_mode(config, df) = "TREND"
        THEN [ok   |-> check_breakout_entry(config, analysis, df, "TREND").ok,
              grid |-> grid]
    ELSE [ok   |-> check_entry_conditions(grid, config, analysis).ok,
          grid |-> check_entry_conditions(grid, config, analysis).grid]

ExitTests(cfg, g, position, md, holding_minutes) ==
    LET gain == (md.current_price - position.entry_price) * 10000
        e == position.entry_price
        spike == /\ MdGet(md, "atr_ma", 0) > 0
                 /\ MdGet(md, "atr", 0) * 10 > 15 * MdGet(md, "atr_ma", 0)
    IN  << gain <= cfg.single_position_stop_loss * e,
           gain >= cfg.single_grid_profit * e,
           cfg.total_stop_loss # 0 /\ MdGet(md, "total_profit_rate", 0) <= cfg.total_stop_loss,
           /\ position.entry_grid_level >= 1
           /\ position.entry_grid_level + 1 <= Len(g.grid_prices)
           /\ md.current_price >= g.grid_prices[position.entry_grid_level + 1],
           spike /\ (gain > 50 * e \/ gain < -30 * e),
           /\ cfg.long_hold_minutes > 0
           /\ holding_minutes >= cfg.long_hold_minutes
           /\ gain < cfg.long_hold_loss_threshold * e >>

ExitKinds == <<"STOP_LOSS", "TAKE_PROFIT", "STOP_LOSS", "TAKE_PROFIT", "TAKE_PROFIT",
               "STOP_LOSS">>

ExitReasons == <<{"single_stop_loss"}, {"grid_profit"}, {"total_stop_loss"}, {"next_grid"},
                 {"vol_spike_profit", "vol_spike_loss"}, {"long_hold"}>>

\* C25: the grid exit check answers with the kind and reason of the first of
\* its six tests that matches, in the order stop-loss, take-profit,
\* portfolio stop, next grid level, volatility spike, long hold, and with
\* (false, none, none) exactly when none matches.
C25_FirstMatchWins ==
    returned.call = "check_exit_conditions"
        => \E t \in {ExitTests(config, grid, returned.args[1], returned.args[2],
                               returned.args[3])} :
              IF \A n \in 1..6 : ~t[n]
                  THEN returned.result = <<FALSE, "", "">>
              ELSE \E n \in 1..6 :
                      /\ t[n]
                      /\ \A j \in 1..(n - 1) : ~t[j]
                      /\ returned.result[1]
                      /\ returned.result[2] = ExitKinds[n]
                      /\ returned.result[3] \in ExitReasons[n]

\* The portfolio stop, the next grid level and the spike all match at 10100
\* with take-profit at 2 %: the portfolio stop answers
C25_Witness ==
    /\ returned.call = "check_exit_conditions"
    /\ config.single_grid_profit = 200
    /\ returned.args[1].entry_grid_level = 3
    /\ returned.args[2].current_price = 10100
    /\ returned.args[2].atr = 16
    /\ returned.args[2].atr_ma = 10
    /\ MdGet(returned.args[2], "total_profit_rate", 0) = -100
    /\ returned.result = <<TRUE, "STOP_LOSS", "total_stop_loss">>

\* C26: when no earlier exit test matches, the volatility-spike exit closes a
\* position whenever ATR >= 1.5 x its moving average and the position is
\* >= 0.5 % up (profit-take) or worse than -0.3 % down (loss cut), and does
\* not close otherwise.
C26_SpikeBoundaries ==
    returned.call = "check_exit_conditions"
        => \E t \in {ExitTests(config, grid, returned.args[1], returned.args[2],
                               returned.args[3])} :
           \E md \in {returned.args[2]} :
           \E gain \in {(md.current_price - returned.args[1].entry_price) * 10000} :
           \E e \in {returned.args[1].entry_price} :
           \E spike \in {md.atr_ma > 0 /\ md.atr * 10 >= 15 * md.atr_ma} :
              (\A n \in 1..4 : ~t[n])
                  => /\ spike /\ gain >= 50 * e
                          => returned.result = <<TRUE, "TAKE_PROFIT", "vol_spike_profit">>
                     /\ spike /\ gain < -30 * e
                          => returned.result[1] /\ returned.result[3] = "vol_spike_loss"
                     /\ ~spike \/ (gain >= -30 * e /\ gain < 50 * e)
                          => returned.result[3] \notin {"vol_spike_profit", "vol_spike_loss"}

\* The price the next-grid-level exit test compares against for a position,
\* read off grid state g (NONE: the test cannot fire)
NextLevelTarget(g, position) ==
    IF /\ MdGet(position, "entry_grid_level", 0) >= 1
       /\ position.entry_grid_level + 1 <= Len(g.grid_prices)
        THEN g.grid_prices[position.entry_grid_level + 1]
    ELSE NONE

\* C27: the next-grid-level target of an open position is the level above its
\* entry level in the grid it was entered on: no step of the loop, a grid
\* reset included, moves the target of a position that stays open.
C27_TargetFixed ==
    [][\A j \in 1..Len(positions) :
            NextLevelTarget(grid', positions[j]) = NextLevelTarget(grid, positions[j])]_vars

\* The first three gates of the grid entry check on market_data md, each on
\* its own: the cap, the volatility gate, the Bollinger filter
EarlyGates(cfg, md) ==
    << MdGet(md, "active_positions", 0) >= cfg.max_positions,
       MdGet(md, "atr_ma", 0) > 0
           /\ MdGet(md, "atr", 0) * 100 > cfg.max_atr_threshold * MdGet(md, "atr_ma", 0),
       ~check_bb_entry_condition(cfg, md) >>

EarlyReasons == <<"max_positions", "volatility", "bb_position">>

\* C28: the grid entry check rejects at the first of cap, volatility gate and
\* Bollinger filter that fails and then leaves the grid state (levels, base
\* price, initialisation time, last band width) as it was; only a check that
\* passed all three goes on to the reset, proximity and level-half tests, so
\* the grid changes in the loop only at such an entry evaluation.
C28_EarlyRejectKeepsGrid ==
    /\ [](pc = "entry"
            => \E v \in {check_entry_conditions(grid, config, analysis)} :
               \E gate \in {EarlyGates(config, analysis)} :
                  /\ \A n \in 1..3 :
                        gate[n] /\ (\A j \in 1..(n - 1) : ~gate[j])
                            => ~v.ok /\ v.reason = EarlyReasons[n] /\ v.grid = grid
                  /\ (\A n \in 1..3 : ~gate[n])
                        => v.reason \in {"no_grid", "not_at_level", "upper_half", "grid_buy"})
    /\ [][grid' # grid
            => /\ pc = "entry"
               /\ can_trade(config, now)
               /\ \A n \in 1..3 : ~EarlyGates(config, analysis)[n]]_vars

\* The Bollinger filter has turned down the first entry: no grid was laid
C28_Witness ==
    /\ pc = "entry"
    /\ ~check_bb_entry_condition(config, analysis)
    /\ analysis.active_positions < config.max_positions
    /\ grid = EmptyGrid
    /\ tick >= 2

HasBands(md) == ~Falsy(MdGet(md, "bb_upper", NONE)) /\ ~Falsy(MdGet(md, "bb_lower", NONE))

\* The four triggers of should_reset_grid on grid state g and market_data md,
\* each on its own, in the order the claim lists them
ResetTriggers(cfg, g, md) ==
    << g.grid_prices = <<>>,
       /\ cfg.grid_reset_hours > 0
       /\ g.grid_initialized_at # NONE
       /\ md.timestamp # NONE
       /\ md.timestamp - g.grid_initialized_at >= 60 * cfg.grid_reset_hours,
       /\ HasBands(md)
       /\ g.last_bb_width # NONE
       /\ WidthChanged(cfg, g.last_bb_width, BBWidth(md)),
       /\ g.grid_prices # <<>>
       /\ \/ \A k \in 1..Len(g.grid_prices) : md.current_price * 100 < g.grid_prices[k] * 85
          \/ \A k \in 1..Len(g.grid_prices) : md.current_price * 100 > g.grid_prices[k] * 115 >>

ResetReasons == <<"first", "periodic", "bb_width", "price_out">>

\* C30: should_reset_grid answers with the first true trigger in the order no
\* levels, interval elapsed, band-width change, price outside the range, and
\* with no reset when none is true; when the band-width check is reached
\* with band data present the last observed width becomes the current width
\* whether or not a reset fires, and when one of the first two triggers
\* fires the last observed width is not touched.  The loop's entry
\* evaluation leaves the width accordingly.
C30_ResetOrderAndWidth ==
    /\ [](pc = "entry"
            => \E sr \in {should_reset_grid(grid, config, analysis)} :
               \E t \in {ResetTriggers(config, grid, analysis)} :
                  /\ sr.reset <=> \E n \in 1..4 : t[n]
                  /\ \A n \in 1..4 :
                        t[n] /\ (\A j \in 1..(n - 1) : ~t[j]) => sr.reason = ResetReasons[n]
                  /\ t[1] \/ t[2] => sr.grid = grid
                  /\ ~t[1] /\ ~t[2] /\ HasBands(analysis)
                        => sr.grid = [grid EXCEPT !.last_bb_width = BBWidth(analysis)]
                  /\ ~t[1] /\ ~t[2] /\ ~HasBands(analysis) => sr.grid = grid)
    /\ [][pc = "entry" /\ pc' = PhaseAfter("entry") /\ can_trade(config, now)
              /\ (\A n \in 1..3 : ~EarlyGates(config, analysis)[n])
            => \E t \in {ResetTriggers(config, grid, analysis)} :
                  grid'.last_bb_width
                     = IF t[1] \/ t[2] \/ ~HasBands(analysis) THEN grid.last_bb_width
                       ELSE BBWidth(analysis)]_vars

\* The band width was recorded on a tick that did not reset the grid
C30_Witness ==
    /\ grid.last_bb_width # NONE
    /\ grid.grid_initialized_at # NONE
    /\ grid.grid_initialized_at < now
    /\ pc = "idle"
    /\ tick = 2

\* C31: every (re)initialisation of the grid leaves the last observed band
\* width unset, so the reset check that follows has no previous width to
\* compare against and cannot fire its band-width trigger.
C31_InitClearsWidth ==
    [][grid'.grid_initialized_at # grid.grid_initialized_at
          => grid'.last_bb_width = NONE]_vars

\* C32: after initialize_grid the ladder has as many levels as configured,
\* for odd and even counts alike, level i being base_price x (1 + i x
\* spacing %) for i from -(count // 2) to +(count // 2).
C32_LevelCount ==
    returned.call = "initialize_grid"
        => /\ Len(grid.grid_prices) = config.grid_levels
           /\ grid.base_price = returned.args[1]
           /\ \A k \in 1..Len(grid.grid_prices) :
                 grid.grid_prices[k]
                    = (grid.base_price
                         * (10000 + (k - 1 - config.grid_levels \div 2) * config.grid_spacing))
                      \div 10000

\* C33: the breakout entry check accepts only in TREND mode with breakout
\* enabled and the current rolling deviation strictly above its mean times
\* the spike multiple; an accepted entry is long exactly when the averaged
\* EMA slope is above +threshold and short exactly when it is below
\* -threshold, and with a spike but a slope inside the thresholds the check
\* rejects as trend-unclear.
C33_BreakoutEntry ==
    returned.call = "check_breakout_entry"
        => \E df \in {returned.args[1]} :
           \E armed \in {/\ config.breakout_enabled
                         /\ returned.args[2] = "TREND"
                         /\ df.current_std * 10
                               > df.mean_std * config.volatility_spike_threshold} :
              /\ returned.result[1] => armed
              /\ armed /\ df.avg_ema_slope > config.ema_slope_threshold
                    => returned.result[1] /\ returned.result[2] = "long"
              /\ armed /\ df.avg_ema_slope < -config.ema_slope_threshold
                    => returned.result[1] /\ returned.result[2] = "short"
              /\ armed /\ df.avg_ema_slope <= config.ema_slope_threshold
                       /\ df.avg_ema_slope >= -config.ema_slope_threshold
                    => ~returned.result[1] /\ returned.result[3] = "trend_unclear"
              /\ returned.result[1] => returned.result[2] \in {"long", "short"}

\* TREND with a spike and a strongly rising slope: a long entry
C33_Witness ==
    /\ returned.call = "check_breakout_entry"
    /\ returned.args[2] = "TREND"
    /\ returned.args[1].avg_ema_slope = 80
    /\ returned.args[1].current_std = 16
    /\ returned.args[1].mean_std = 10
    /\ returned.result[1]
    /\ returned.result[2] = "long"

C36_CapFromSnapshot ==
    [][pc = "entry" /\ analysis.active_positions >= config.max_positions
          => /\ buys' = buys
             /\ Len(positions') <= Len(positions)
             /\ grid' = grid]_vars

\* The tick began with the cap reached, its exit phase sold a position, and
\* the entry evaluation that followed opened none
C36_Witness ==
    /\ pc = "idle"
    /\ tick = MaxTicks
    /\ buys = config.max_positions
    /\ Len(positions) = config.max_positions - 1
    /\ Len(trades) = 1
    /\ trades[1].timestamp = now

\* C37 as stated: every grid reset performed by the loop coincides with a buy
\* at that tick.
C37_ResetMeansBuy ==
    [][grid'.grid_initialized_at # grid.grid_initialized_at => buys' = buys + 1]_vars

\* C37, amended: whenever the entry check rebuilds the grid, the rebuilt grid
\* has the current price as its midpoint level and the same check accepts
\* the entry; in a backtest the reset coincides with a buy at that tick, in
\* live mode with a buy order, which opens a position only if it is filled.
C37_ResetMeansAccepted ==
    [][grid'.grid_initialized_at # grid.grid_initialized_at
          => /\ pc = "entry"
             /\ check_entry_conditions(grid, config, analysis).ok
             /\ get_nearest_grid_level(grid', analysis.current_price)
                   = [idx   |-> Len(grid'.grid_prices) \div 2 + 1,
                      level |-> analysis.current_price]
             /\ mode = "backtest" => buys' = buys + 1
             /\ mode = "live" => buys' \in {buys, buys + 1}]_vars

\* A backtest tick re-laid a grid that already existed, and bought
C37_Witness ==
    /\ mode = "backtest"
    /\ tick >= 2
    /\ Len(positions) = 2
    /\ grid.grid_initialized_at = now
    /\ positions[2].entry_time = now
    /\ positions[1].entry_time < now
    /\ positions[2].entry_grid_level = 3

\* C38: in a backtest capital is never negative: a buy debits the smaller of
\* the capital and the per-position notional, and a sell credits a net
\* amount that is not negative.
C38_CapitalNonNegative ==
    /\ [](mode = "backtest" => capital >= 0)
    /\ [][mode = "backtest" /\ buys' = buys + 1
            => \E notional \in {config.trade_amount \div config.max_positions} :
                  capital - capital' = IF capital < notional THEN capital ELSE notional]_vars
    /\ [][mode = "backtest" /\ Len(trades') = Len(trades) + 1 => capital' >= capital]_vars

\* The second buy found less capital than the notional and took all of it
C38_Witness ==
    /\ mode = "backtest"
    /\ capital = 0
    /\ Len(positions) = 2
    /\ positions[1].amount + positions[1].fee = 900000
    /\ positions[2].amount + positions[2].fee = 100000

\* df['profit'].sum() over the trade history
RECURSIVE ProfitSum(_)
ProfitSum(ts) == IF ts = <<>> THEN 0 ELSE Head(ts).profit + ProfitSum(Tail(ts))

\* C39: in a backtest, in every state with no open position, capital minus
\* the initial capital equals the sum of the realized profit of all trades.
C39_CapitalMatchesProfit ==
    mode = "backtest" /\ positions = <<>> /\ pc \in {"idle", "done"}
        => capital - InitialCapital = ProfitSum(trades)

\* C40: within one hybrid entry evaluation over one price history, whenever
\* the classifier returns TREND the breakout entry check never rejects as
\* trend-unclear: it rejects for breakout disabled or for no volatility
\* spike, or accepts with the direction of the sign of the averaged EMA
\* slope.
C40_TrendNeverUnclear ==
    pc = "entry"
        => \A df \in Histories :
              ~HistoryTooShort(config, df) /\ determine_market_mode(config, df) = "TREND"
                  => \E v \in {hybrid_check_entry_conditions(grid, config, analysis, df)} :
                        /\ v.reason \in {"breakout_disabled", "no_volatility_spike",
                                         "breakout_long", "breakout_short"}
                        /\ v.ok <=> v.reason \in {"breakout_long", "breakout_short"}
                        /\ v.ok => /\ v.md.direction = "long" <=> df.avg_ema_slope > 0
                                   /\ v.md.direction = "short" <=> df.avg_ema_slope < 0

\* A breakout entry was made on the first tick (the grid was never laid) and
\* the second tick's evaluation over a TREND history is accepted again
C40_Witness ==
    /\ strategy = "HybridGridStrategy"
    /\ pc = "entry"
    /\ Len(positions) = 1
    /\ grid = EmptyGrid
    /\ tick = 2
    /\ \E df \in Histories :
          /\ determine_market_mode(config, df) = "TREND"
          /\ hybrid_check_entry_conditions(grid, config, analysis, df).ok

====
